---- MODULE Spec2Model ----
(***************************************************************************)
(* Step Functions workflow fragments of aibs-informatics-cdk-lib.          *)
(*                                                                         *)
(* The builders of constructs_/sfn (S3Operation, BatchOperation,           *)
(* StateMachineFragment.enclose, SubmitJobFragment, TaskWithPrePostStatus) *)
(* are translated into operators that produce a graph of Amazon States     *)
(* Language states; the actions execute such a graph one state at a time   *)
(* over a JSON execution context.                                          *)
(***************************************************************************)
EXTENDS Integers, Sequences, FiniteSets, TLC

(***************************************************************************)
(* JSON values.  Every value carries a tag so that values of different    *)
(* kinds can be told apart.                                                *)
(***************************************************************************)
Null == [t |-> "null"]

Str(s) == [t |-> "str", v |-> s]

Num(n) == [t |-> "num", v |-> n]

Obj(f) == [t |-> "obj", v |-> f]

Arr(q) == [t |-> "arr", v |-> q]

EmptyObj == Obj(<<>>)

IsObj(x) == x.t = "obj"

IsArr(x) == x.t = "arr"

IsStr(x) == x.t = "str"

\* The result of a partial operation: a value, or a failure.
Ok(x) == [ok |-> TRUE, v |-> x]

Bad == [ok |-> FALSE, v |-> Null]

(***************************************************************************)
(* Strings.                                                                *)
(***************************************************************************)
StartsWith(s, p) == Len(s) >= Len(p) /\ SubSeq(s, 1, Len(p)) = p

EndsWith(s, p) == Len(s) >= Len(p) /\ SubSeq(s, Len(s) - Len(p) + 1, Len(s)) = p

(***************************************************************************)
(* Paths.  A path is the string the source writes ("$", "$.a.b",           *)
(* "$.result[0]", "$[0]"); PathSegs splits it into its segments.           *)
(***************************************************************************)
RECURSIVE ScanPath(_, _, _, _)
ScanPath(s, i, cur, acc) ==
    LET flushed == IF cur = "" THEN acc ELSE Append(acc, cur)
        c == SubSeq(s, i, i)
    IN IF i > Len(s) THEN flushed
       ELSE IF c = "." THEN ScanPath(s, i + 1, "", flushed)
       ELSE IF c = "[" THEN ScanPath(s, i + 1, "[", flushed)
       ELSE IF c = "]" THEN ScanPath(s, i + 1, "", Append(acc, cur \o "]"))
       ELSE ScanPath(s, i + 1, cur \o c, acc)

PathSegs(p) == ScanPath(p, 2, "", <<>>)

IsIndex(seg) == StartsWith(seg, "[")

IndexOf(seg) == CASE seg = "[0]" -> 1
                  [] seg = "[1]" -> 2
                  [] OTHER -> 0

RECURSIVE GetSegs(_, _)
GetSegs(x, segs) ==
    IF segs = <<>> THEN Ok(x)
    ELSE LET h == Head(segs) IN
         IF IsIndex(h)
         THEN IF IsArr(x) /\ IndexOf(h) \in DOMAIN x.v
              THEN GetSegs(x.v[IndexOf(h)], Tail(segs))
              ELSE Bad
         ELSE IF IsObj(x) /\ h \in DOMAIN x.v
              THEN GetSegs(x.v[h], Tail(segs))
              ELSE Bad

\* The value a path selects in a document; a path that selects nothing fails.
GetPath(x, p) == GetSegs(x, PathSegs(p))

RECURSIVE PutSegs(_, _, _)
PutSegs(x, segs, new) ==
    IF segs = <<>> THEN Ok(new)
    ELSE LET h == Head(segs) IN
         IF IsIndex(h) \/ ~IsObj(x) THEN Bad
         ELSE LET child == IF h \in DOMAIN x.v THEN x.v[h] ELSE EmptyObj
                  sub == PutSegs(child, Tail(segs), new)
              IN IF ~sub.ok THEN Bad
                 ELSE Ok(Obj([k \in DOMAIN x.v \cup {h} |->
                                 IF k = h THEN sub.v ELSE x.v[k]]))

\* The document with the value at a path replaced; missing objects on the
\* way are created.
PutPath(x, p, new) == PutSegs(x, PathSegs(p), new)

(***************************************************************************)
(* Payload templates.  A `parameters` tree handed to a state is a JSON     *)
(* tree whose leaves may be tokens: JsonPath.string_at / object_at of a    *)
(* path, JsonPath.format, JsonPath.uuid, JsonPath.string_to_json.  A       *)
(* CustomState writes the same thing in the States Language itself: a key  *)
(* that ends in ".$" has a path as its value.                              *)
(***************************************************************************)
string_at(p) == [t |-> "tok", k |-> "path", p |-> p]

object_at(p) == string_at(p)

entire_payload == string_at("$")

execution_name == string_at("$$.Execution.Name")

uuid == [t |-> "tok", k |-> "uuid"]

format(fmt, args) == [t |-> "tok", k |-> "format", fmt |-> fmt, args |-> args]

string_to_json(p) == [t |-> "tok", k |-> "s2j", p |-> p]

IsTok(x) == x.t = "tok"

\* JsonPath.DISCARD, and None as the ResultPath of a CustomState.
DISCARD == "DISCARD"

\* Python's None where a string is expected; `x or d` takes d for it.
None == ""

OrElse(x, d) == IF x = None THEN d ELSE x

\* The context object ($$) of a running state.
ContextObject(env) ==
    Obj([k \in {"Execution", "State"} |->
            IF k = "Execution" THEN Obj([j \in {"Name"} |-> Str(env.exec)])
            ELSE Obj([j \in {"Name"} |-> Str(env.state)])])

\* A path expression against the state input, or against the context
\* object when it starts with "$$".
EvalPathExpr(p, input, env) ==
    IF StartsWith(p, "$$")
    THEN GetPath(ContextObject(env), SubSeq(p, 2, Len(p)))
    ELSE IF StartsWith(p, "$") THEN GetPath(input, p)
    ELSE Bad

\* States.Format: every "{}" of the template takes the next argument.
RECURSIVE FormatFrom(_, _, _)
FormatFrom(fmt, i, args) ==
    IF i > Len(fmt) THEN IF args = <<>> THEN Ok("") ELSE Bad
    ELSE IF i < Len(fmt) /\ SubSeq(fmt, i, i + 1) = "{}"
         THEN IF args = <<>> \/ ~IsStr(Head(args)) THEN Bad
              ELSE LET rest == FormatFrom(fmt, i + 2, Tail(args))
                   IN IF rest.ok THEN Ok(Head(args).v \o rest.v) ELSE Bad
         ELSE LET rest == FormatFrom(fmt, i + 1, args)
              IN IF rest.ok THEN Ok(SubSeq(fmt, i, i) \o rest.v) ELSE Bad

StatesFormat(fmt, args) ==
    LET r == FormatFrom(fmt, 1, args) IN IF r.ok THEN Ok(Str(r.v)) ELSE Bad

(***************************************************************************)
(* JSON text: what States.JsonToString and the S3 body of a JSON value     *)
(* write, and what States.StringToJson reads.                              *)
(***************************************************************************)
Digits == <<"0", "1", "2", "3", "4", "5", "6", "7", "8", "9">>

IsDigit(c) == \E d \in 1..10 : Digits[d] = c

DigitVal(c) == (CHOOSE d \in 1..10 : Digits[d] = c) - 1

RECURSIVE NumText(_)
NumText(n) == IF n < 10 THEN Digits[n + 1]
              ELSE NumText(n \div 10) \o Digits[(n % 10) + 1]

RECURSIVE Serialize(_)
RECURSIVE SerMembers(_, _)
RECURSIVE SerElems(_, _)
Serialize(x) ==
    CASE x.t = "str" -> "\"" \o x.v \o "\""
      [] x.t = "num" -> NumText(x.v)
      [] x.t = "obj" -> "{" \o SerMembers(x.v, DOMAIN x.v) \o "}"
      [] x.t = "arr" -> "[" \o SerElems(x.v, 1) \o "]"
      [] OTHER -> "null"

SerMembers(f, keys) ==
    IF keys = {} THEN ""
    ELSE LET k == CHOOSE j \in keys : TRUE
             rest == keys \ {k}
         IN "\"" \o k \o "\":" \o Serialize(f[k])
            \o (IF rest = {} THEN "" ELSE "," \o SerMembers(f, rest))

SerElems(q, i) ==
    IF i > Len(q) THEN ""
    ELSE Serialize(q[i]) \o (IF i = Len(q) THEN "" ELSE "," \o SerElems(q, i + 1))

\* A parse result: the value read and the position after it.
At(x, i) == [ok |-> TRUE, v |-> x, i |-> i]

NoParse == [ok |-> FALSE, v |-> Null, i |-> 0]

Ch(s, i) == IF i \in 1..Len(s) THEN SubSeq(s, i, i) ELSE ""

RECURSIVE SkipSpace(_, _)
SkipSpace(s, i) == IF Ch(s, i) = " " THEN SkipSpace(s, i + 1) ELSE i

RECURSIVE ParseString(_, _, _)
ParseString(s, i, acc) ==
    IF i > Len(s) THEN NoParse
    ELSE IF Ch(s, i) = "\"" THEN At(Str(acc), i + 1)
    ELSE ParseString(s, i + 1, acc \o Ch(s, i))

RECURSIVE ParseNum(_, _, _)
ParseNum(s, i, acc) ==
    IF IsDigit(Ch(s, i)) THEN ParseNum(s, i + 1, acc * 10 + DigitVal(Ch(s, i)))
    ELSE At(Num(acc), i)

RECURSIVE ParseValue(_, _)
RECURSIVE ParseMembers(_, _, _)
RECURSIVE ParseElems(_, _, _)
ParseValue(s, i0) ==
    LET i == SkipSpace(s, i0)
        c == Ch(s, i)
    IN CASE c = "\"" -> ParseString(s, i + 1, "")
         [] c = "{" -> IF Ch(s, SkipSpace(s, i + 1)) = "}"
                       THEN At(EmptyObj, SkipSpace(s, i + 1) + 1)
                       ELSE ParseMembers(s, i + 1, <<>>)
         [] c = "[" -> IF Ch(s, SkipSpace(s, i + 1)) = "]"
                       THEN At(Arr(<<>>), SkipSpace(s, i + 1) + 1)
                       ELSE ParseElems(s, i + 1, <<>>)
         [] IsDigit(c) -> ParseNum(s, i, 0)
         [] c = "n" /\ SubSeq(s, i, i + 3) = "null" -> At(Null, i + 4)
         [] OTHER -> NoParse

ParseMembers(s, i0, f) ==
    LET i == SkipSpace(s, i0)
        key == IF Ch(s, i) = "\"" THEN ParseString(s, i + 1, "") ELSE NoParse
        colon == SkipSpace(s, key.i)
        val == IF key.ok /\ Ch(s, colon) = ":" THEN ParseValue(s, colon + 1)
               ELSE NoParse
        after == SkipSpace(s, val.i)
        g == [k \in DOMAIN f \cup {key.v.v} |->
                 IF k = key.v.v THEN val.v ELSE f[k]]
    IN IF ~val.ok THEN NoParse
       ELSE IF Ch(s, after) = "," THEN ParseMembers(s, after + 1, g)
       ELSE IF Ch(s, after) = "}" THEN At(Obj(g), after + 1)
       ELSE NoParse

ParseElems(s, i0, q) ==
    LET val == ParseValue(s, i0)
        after == SkipSpace(s, val.i)
    IN IF ~val.ok THEN NoParse
       ELSE IF Ch(s, after) = "," THEN ParseElems(s, after + 1, Append(q, val.v))
       ELSE IF Ch(s, after) = "]" THEN At(Arr(Append(q, val.v)), after + 1)
       ELSE NoParse

\* States.StringToJson: the whole text must be one JSON value.
StringToJson(s) ==
    LET r == ParseValue(s, 1)
    IN IF r.ok /\ SkipSpace(s, r.i) > Len(s) THEN Ok(r.v) ELSE Bad

(***************************************************************************)
(* Evaluation of a payload template against a state input.                 *)
(***************************************************************************)
\* The key a ".$" key writes.
OutKey(k) == IF EndsWith(k, ".$") THEN SubSeq(k, 1, Len(k) - 2) ELSE k

RECURSIVE Eval(_, _, _)
Eval(x, input, env) ==
    CASE x.t = "tok" ->
           (CASE x.k = "path" -> EvalPathExpr(x.p, input, env)
              [] x.k = "uuid" -> Ok(Str(env.uuid))
              [] x.k = "format" ->
                   LET as == [i \in DOMAIN x.args |-> Eval(x.args[i], input, env)]
                   IN IF \E i \in DOMAIN as : ~as[i].ok THEN Bad
                      ELSE StatesFormat(x.fmt, [i \in DOMAIN as |-> as[i].v])
              [] x.k = "s2j" ->
                   LET a == EvalPathExpr(x.p, input, env)
                   IN IF a.ok /\ IsStr(a.v) THEN StringToJson(a.v.v) ELSE Bad
              [] OTHER -> Bad)
      [] x.t = "obj" ->
           LET ev == [k \in DOMAIN x.v |->
                        IF EndsWith(k, ".$")
                        THEN IF IsStr(x.v[k]) THEN EvalPathExpr(x.v[k].v, input, env)
                             ELSE Bad
                        ELSE Eval(x.v[k], input, env)]
               src(j) == IF j \in DOMAIN x.v THEN j ELSE j \o ".$"
           IN IF \E k \in DOMAIN x.v : ~ev[k].ok THEN Bad
              ELSE Ok(Obj([j \in {OutKey(k) : k \in DOMAIN x.v} |-> ev[src(j)].v]))
      [] x.t = "arr" ->
           LET ev == [i \in DOMAIN x.v |-> Eval(x.v[i], input, env)]
           IN IF \E i \in DOMAIN x.v : ~ev[i].ok THEN Bad
              ELSE Ok(Arr([i \in DOMAIN x.v |-> ev[i].v]))
      [] OTHER -> Ok(x)

(***************************************************************************)
(* constructs_/sfn/utils.py                                                *)
(***************************************************************************)
\* A token that CDK made carries its own tag here, so the last branch
\* returns it unchanged; a string that is the text of an unresolved token
\* starts with "${Token" and is left as it is.
RECURSIVE convert_reference_paths(_)
\* A conversion that marks every string.
convert_reference_paths_all(parameters) ==
    CASE parameters.t = "obj" ->
           Obj([k \in DOMAIN parameters.v |-> convert_reference_paths(parameters.v[k])])
      [] parameters.t = "arr" ->
           Arr([i \in DOMAIN parameters.v |-> convert_reference_paths(parameters.v[i])])
      [] parameters.t = "str" -> string_at(parameters.v)
      [] OTHER -> parameters

\* A conversion that leaves arrays as they are.
convert_reference_paths_flat(parameters) ==
    CASE parameters.t = "obj" ->
           Obj([k \in DOMAIN parameters.v |-> convert_reference_paths(parameters.v[k])])
      [] parameters.t = "str" ->
           IF (StartsWith(parameters.v, "$") \/ StartsWith(parameters.v, "States."))
              /\ ~StartsWith(parameters.v, "${Token")
           THEN string_at(parameters.v)
           ELSE parameters
      [] OTHER -> parameters

convert_reference_paths(parameters) ==
    CASE parameters.t = "obj" ->
           Obj([k \in DOMAIN parameters.v |-> convert_reference_paths(parameters.v[k])])
      [] parameters.t = "arr" ->
           Arr([i \in DOMAIN parameters.v |-> convert_reference_paths(parameters.v[i])])
      [] parameters.t = "str" ->
           IF (StartsWith(parameters.v, "$") \/ StartsWith(parameters.v, "States."))
              /\ ~StartsWith(parameters.v, "${Token")
           THEN string_at(parameters.v)
           ELSE parameters
      [] OTHER -> parameters

(***************************************************************************)
(* States and chains.  A state is a record of the fields the States        *)
(* Language gives it; Next = "" is End.  A chain is the states it reaches, *)
(* its start state and its end states.                                     *)
(***************************************************************************)
State ==
    [Type |-> "Pass", InputPath |-> "$", HasParameters |-> FALSE,
     Parameters |-> Null, HasResultSelector |-> FALSE, ResultSelector |-> Null,
     ResultPath |-> "$", OutputPath |-> "$", Next |-> "", Catch |-> <<>>,
     Branch |-> "", Resource |-> "", Cause |-> "", CausePath |-> "",
     ErrorPath |-> "", Retry |-> <<>>, More |-> <<>>, ItemsPath |-> "$",
     Choices |-> <<>>, Default |-> ""]

\* sfn.Pass(scope, id, parameters=..., input_path=..., result_path=...,
\* output_path=...); an argument left out is passed as None.
Pass(parameters, input_path, result_path, output_path) ==
    [State EXCEPT !.Type = "Pass",
                  !.HasParameters = parameters # Null,
                  !.Parameters = parameters,
                  !.InputPath = OrElse(input_path, "$"),
                  !.ResultPath = OrElse(result_path, "$"),
                  !.OutputPath = OrElse(output_path, "$")]

\* sfn.CustomState with a state_json of Type Task.
Task(resource, parameters, result_selector, result_path, output_path) ==
    [State EXCEPT !.Type = "Task",
                  !.Resource = resource,
                  !.HasParameters = parameters # Null,
                  !.Parameters = parameters,
                  !.HasResultSelector = result_selector # Null,
                  !.ResultSelector = result_selector,
                  !.ResultPath = OrElse(result_path, "$"),
                  !.OutputPath = OrElse(output_path, "$")]

\* sfn.Fail(scope, id, cause=..., cause_path=..., error_path=...).
Fail(cause, cause_path, error_path) ==
    [State EXCEPT !.Type = "Fail", !.Cause = cause, !.CausePath = cause_path,
                  !.ErrorPath = error_path]

\* sfn.Chain.start(state)
Single(id, state) == [states |-> (id :> state), start |-> id, ends |-> {id}]

\* A chain that ends in a Fail state has no end state to continue from.
Terminal(id, state) == [states |-> (id :> state), start |-> id, ends |-> {}]

\* a.next(b): every end state of a continues at the start of b.
ChainNext(a, b) ==
    [states |-> [n \in DOMAIN a.states \cup DOMAIN b.states |->
                    IF n \in a.ends THEN [a.states[n] EXCEPT !.Next = b.start]
                    ELSE IF n \in DOMAIN a.states THEN a.states[n]
                    ELSE b.states[n]],
     start |-> a.start,
     ends |-> b.ends]

\* A to_single_state that writes the branch outputs over the input where
\* it was told to discard them.
to_single_state_keep_result(chain, id, input_path, result_path, output_path) ==
    [states |-> (id :> [State EXCEPT !.Type = "Parallel",
                                      !.Branch = chain.start,
                                      !.InputPath = OrElse(input_path, "$"),
                                      !.ResultPath = IF result_path = DISCARD THEN "$"
                                                     ELSE OrElse(result_path, "$"),
                                      !.OutputPath = OrElse(output_path, "$")])
                 @@ chain.states,
     start |-> id,
     ends |-> {id}]

\* chain.to_single_state(id, input_path=..., result_path=..., output_path=...):
\* a Parallel state with the chain as its only branch.
to_single_state(chain, id, input_path, result_path, output_path) ==
    [states |-> (id :> [State EXCEPT !.Type = "Parallel",
                                      !.Branch = chain.start,
                                      !.InputPath = OrElse(input_path, "$"),
                                      !.ResultPath = OrElse(result_path, "$"),
                                      !.OutputPath = OrElse(output_path, "$")])
                 @@ chain.states,
     start |-> id,
     ends |-> {id}]

\* sfn.Parallel(scope, id, input_path=..., result_path=...,
\* result_selector=...): a Parallel state that has no branch yet.
Parallel(id, input_path, result_path, result_selector) ==
    Single(id, [State EXCEPT !.Type = "Parallel",
                             !.InputPath = OrElse(input_path, "$"),
                             !.ResultPath = OrElse(result_path, "$"),
                             !.HasResultSelector = result_selector # Null,
                             !.ResultSelector = result_selector])

\* parallel.branch(chain): one more branch of the Parallel state.
branch(parallel, chain) ==
    [parallel EXCEPT !.states =
        [n \in DOMAIN parallel.states \cup DOMAIN chain.states |->
            IF n = parallel.start
            THEN IF parallel.states[n].Branch = ""
                 THEN [parallel.states[n] EXCEPT !.Branch = chain.start]
                 ELSE [parallel.states[n] EXCEPT !.More = Append(@, chain.start)]
            ELSE IF n \in DOMAIN parallel.states THEN parallel.states[n]
            ELSE chain.states[n]]]

\* sfn.Map(scope, id, items_path=..., input_path=..., result_path=...)
\* .iterator(chain): one run of the chain for each item.
Map(id, items_path, input_path, result_path, chain) ==
    [states |-> (id :> [State EXCEPT !.Type = "Map",
                                      !.Branch = chain.start,
                                      !.ItemsPath = OrElse(items_path, "$"),
                                      !.InputPath = OrElse(input_path, "$"),
                                      !.ResultPath = OrElse(result_path, "$")])
                 @@ chain.states,
     start |-> id,
     ends |-> {id}]

\* sfn.Choice(scope, id).when(Condition.is_present(variable), next)
\* .otherwise(default): a Choice has no end state to continue from.
Choice(id, variable, next, default) ==
    [states |-> (id :> [State EXCEPT !.Type = "Choice",
                                      !.Choices = <<[Variable |-> variable,
                                                     IsPresent |-> TRUE,
                                                     Next |-> next.start]>>,
                                      !.Default = default.start])
                 @@ next.states @@ default.states,
     start |-> id,
     ends |-> {}]

\* A state that takes no catcher.
add_catch_none(c, n, handler, result_path, errors) == c

\* state.add_catch(handler, result_path=..., errors=...) on state n of
\* chain c; errors defaults to States.ALL.
add_catch(c, n, handler, result_path, errors) ==
    [c EXCEPT !.states =
        [m \in DOMAIN c.states \cup DOMAIN handler.states |->
            IF m = n
            THEN [c.states[m] EXCEPT !.Catch =
                     Append(@, [ErrorEquals |-> errors,
                                ResultPath |-> OrElse(result_path, "$"),
                                Next |-> handler.start])]
            ELSE IF m \in DOMAIN c.states THEN c.states[m]
            ELSE handler.states[m]]]

\* A JSON object from a sequence of <<key, value>> pairs.
Rec(pairs) ==
    Obj([k \in {pairs[i][1] : i \in DOMAIN pairs} |->
            pairs[CHOOSE i \in DOMAIN pairs : pairs[i][1] = k][2]])

(***************************************************************************)
(* constructs_/sfn/states/s3.py                                            *)
(***************************************************************************)
S3_PUT == "arn:aws:states:::aws-sdk:s3:putObject"

S3_GET == "arn:aws:states:::aws-sdk:s3:getObject"

\* put_object with a Post state that also echoes the body.
put_object_echo(id, bucket_name, key, body, result_path, output_path) ==
    LET rp == OrElse(result_path, "$")
        init == Pass(convert_reference_paths(
                        Rec(<< <<"Bucket", bucket_name>>, <<"Key", key>>,
                               <<"Body", body>> >>)),
                     None, rp, None)
        call == Task(S3_PUT,
                     Rec(<< <<"Bucket.$", Str(rp \o ".Bucket")>>,
                            <<"Key.$", Str(rp \o ".Key")>>,
                            <<"Body.$", Str(rp \o ".Body")>> >>),
                     Null, DISCARD, None)
        end == Pass(convert_reference_paths(
                        Rec(<< <<"Bucket", Str(rp \o ".Bucket")>>,
                               <<"Key", Str(rp \o ".Key")>>,
                               <<"Body", Str(rp \o ".Body")>> >>)),
                    None, result_path, output_path)
    IN ChainNext(ChainNext(Single(id \o " PutObject Prep", init),
                           Single(id \o " PutObject API Call", call)),
                 Single(id \o " PutObject Post", end))

put_object(id, bucket_name, key, body, result_path, output_path) ==
    LET rp == OrElse(result_path, "$")
        init == Pass(convert_reference_paths(
                        Rec(<< <<"Bucket", bucket_name>>, <<"Key", key>>,
                               <<"Body", body>> >>)),
                     None, rp, None)
        call == Task(S3_PUT,
                     Rec(<< <<"Bucket.$", Str(rp \o ".Bucket")>>,
                            <<"Key.$", Str(rp \o ".Key")>>,
                            <<"Body.$", Str(rp \o ".Body")>> >>),
                     Null, DISCARD, None)
        end == Pass(convert_reference_paths(
                        Rec(<< <<"Bucket", Str(rp \o ".Bucket")>>,
                               <<"Key", Str(rp \o ".Key")>> >>)),
                    None, result_path, output_path)
    IN ChainNext(ChainNext(Single(id \o " PutObject Prep", init),
                           Single(id \o " PutObject API Call", call)),
                 Single(id \o " PutObject Post", end))

get_object(id, bucket_name, key, result_path, output_path) ==
    LET init == Pass(convert_reference_paths(
                        Rec(<< <<"Bucket", bucket_name>>, <<"Key", key>> >>)),
                     None, OrElse(result_path, "$"), None)
        call == Task(S3_GET,
                     Rec(<< <<"Bucket.$", Str("$.Bucket")>>,
                            <<"Key.$", Str("$.Key")>> >>),
                     Rec(<< <<"Body.$", Str("$.Body")>> >>),
                     result_path, output_path)
    IN ChainNext(Single(id \o " GetObject Prep", init),
                 Single(id \o " GetObject API Call", call))

\* put_payload with a generated key that leaves the execution name out.
put_payload_uuid_only(id, payload, bucket_name, key, result_path, output_path) ==
    LET k == IF key = Null \/ key = Str("")
             THEN format("{}", <<uuid>>)
             ELSE key
    IN put_object(id, bucket_name, k, payload, result_path, output_path)

\* key is a token or a string; `key or ...` takes the generated key for
\* None and for the empty string.
put_payload(id, payload, bucket_name, key, result_path, output_path) ==
    LET k == IF key = Null \/ key = Str("")
             THEN format("{}/{}", <<execution_name, uuid>>)
             ELSE key
    IN put_object(id, bucket_name, k, payload, result_path, output_path)

\* get_payload with a Post state that hands the body on unparsed.
get_payload_raw(id, bucket_name, key, result_path, output_path) ==
    LET get_chain == get_object(id, bucket_name, key, result_path, output_path)
        post == Pass(Rec(<< <<"Payload", string_at("$.Body")>> >>),
                     None, result_path, "$.Payload")
    IN ChainNext(get_chain, Single(id \o " Post", post))

get_payload(id, bucket_name, key, result_path, output_path) ==
    LET get_chain == get_object(id, bucket_name, key, result_path, output_path)
        post == Pass(Rec(<< <<"Payload", string_to_json("$.Body")>> >>),
                     None, result_path, "$.Payload")
    IN ChainNext(get_chain, Single(id \o " Post", post))

(***************************************************************************)
(* JsonReferencePath (constructs_/sfn/utils.py)                            *)
(***************************************************************************)
\* _EXTRA_PERIODS_PATTERN.sub(".", s): every run of "$" and "." becomes ".".
RECURSIVE SubPeriods(_, _, _)
SubPeriods(s, i, inRun) ==
    IF i > Len(s) THEN ""
    ELSE IF Ch(s, i) \in {"$", "."}
         THEN (IF inRun THEN "" ELSE ".") \o SubPeriods(s, i + 1, TRUE)
         ELSE Ch(s, i) \o SubPeriods(s, i + 1, FALSE)

\* str.strip(".")
RECURSIVE StripPeriods(_)
StripPeriods(s) ==
    IF s = "" THEN s
    ELSE IF Ch(s, 1) = "." THEN StripPeriods(SubSeq(s, 2, Len(s)))
    ELSE IF Ch(s, Len(s)) = "." THEN StripPeriods(SubSeq(s, 1, Len(s) - 1))
    ELSE s

\* A sanitize that strips the edges before it collapses the runs.
sanitize_strip_first(s) == SubPeriods(StripPeriods(s), 1, FALSE)

sanitize(s) == StripPeriods(SubPeriods(s, 1, FALSE))

JsonReferencePath(content) == sanitize(content)

\* JsonReferencePath.__add__
PathAdd(self, other) == JsonReferencePath(self \o "." \o other)

as_reference(self) == IF self # "" THEN "$." \o self ELSE "$"

\* An as_key that writes the marker in front.
as_key_in_front(self) == IF self # "" THEN "$." \o self ELSE "$"

as_key(self) == IF self # "" THEN self \o ".$" ELSE "$"

(***************************************************************************)
(* Helpers of aibs_informatics_core / aibs_informatics_aws_utils that      *)
(* constructs_/sfn/states/batch.py calls.                                  *)
(***************************************************************************)
Upper == [c \in {"a", "b", "c", "d", "e", "f", "g", "h", "i", "j", "k", "l", "m",
                 "n", "o", "p", "q", "r", "s", "t", "u", "v", "w", "x", "y", "z"} |->
             CASE c = "a" -> "A" [] c = "b" -> "B" [] c = "c" -> "C" [] c = "d" -> "D"
               [] c = "e" -> "E" [] c = "f" -> "F" [] c = "g" -> "G" [] c = "h" -> "H"
               [] c = "i" -> "I" [] c = "j" -> "J" [] c = "k" -> "K" [] c = "l" -> "L"
               [] c = "m" -> "M" [] c = "n" -> "N" [] c = "o" -> "O" [] c = "p" -> "P"
               [] c = "q" -> "Q" [] c = "r" -> "R" [] c = "s" -> "S" [] c = "t" -> "T"
               [] c = "u" -> "U" [] c = "v" -> "V" [] c = "w" -> "W" [] c = "x" -> "X"
               [] c = "y" -> "Y" [] OTHER -> "Z"]

\* pascalcase of a camelCase key: the first letter in upper case.
pascalcase(k) ==
    IF k # "" /\ Ch(k, 1) \in DOMAIN Upper
    THEN Upper[Ch(k, 1)] \o SubSeq(k, 2, Len(k))
    ELSE k

RECURSIVE convert_key_case(_)
convert_key_case(x) ==
    CASE x.t = "obj" ->
           Obj([j \in {pascalcase(k) : k \in DOMAIN x.v} |->
                   convert_key_case(x.v[CHOOSE k \in DOMAIN x.v : pascalcase(k) = j])])
      [] x.t = "arr" -> Arr([i \in DOMAIN x.v |-> convert_key_case(x.v[i])])
      [] OTHER -> x

\* to_key_value_pairs: the name/value pairs of a mapping.
RECURSIVE PairsOf(_, _)
PairsOf(f, keys) ==
    IF keys = {} THEN <<>>
    ELSE LET k == CHOOSE j \in keys : TRUE
         IN <<Rec(<< <<"name", Str(k)>>, <<"value", f[k]>> >>)>> \o PairsOf(f, keys \ {k})

to_key_value_pairs(environment) == Arr(PairsOf(environment.v, DOMAIN environment.v))

\* to_resource_requirements: one entry for each of gpu, memory and vcpus
\* that is given, its value as a string.
to_resource_requirements(gpu, memory, vcpus) ==
    LET entry(type, x) ==
            IF x = Null THEN <<>>
            ELSE <<Rec(<< <<"type", Str(type)>>,
                          <<"value", IF x.t = "num" THEN Str(NumText(x.v)) ELSE x>> >>)>>
    IN Arr(entry("GPU", gpu) \o entry("MEMORY", memory) \o entry("VCPU", vcpus))

\* build_retry_strategy(include_default_evaluate_on_exit_configs=True)
build_retry_strategy ==
    Rec(<< <<"attempts", Num(5)>>,
           <<"evaluateOnExit",
             Arr(<< Rec(<< <<"action", Str("RETRY")>>,
                           <<"onStatusReason", Str("Task failed to start")>>,
                           <<"onReason", Str("DockerTimeoutError*")>> >>),
                    Rec(<< <<"action", Str("RETRY")>>,
                           <<"onStatusReason", Str("Host EC2*")>> >>),
                    Rec(<< <<"action", Str("EXIT")>>,
                           <<"onStatusReason", Str("*")>> >>) >>)>> >>)

(***************************************************************************)
(* constructs_/sfn/states/batch.py                                         *)
(***************************************************************************)
BATCH_REGISTER == "arn:aws:states:::aws-sdk:batch:registerJobDefinition"

BATCH_SUBMIT == "arn:aws:states:::batch:submitJob.sync"

BATCH_DEREGISTER == "arn:aws:states:::aws-sdk:batch:deregisterJobDefinition"

\* {f"{k}.$": f"$.{k}" for k in parameters.keys()}
KeyRefs(parameters) ==
    Obj([j \in {k \o ".$" : k \in DOMAIN parameters.v} |->
            Str("$." \o SubSeq(j, 1, Len(j) - 2))])

register_job_definition(id, command, image, job_definition_name, environment, memory, vcpus, gpu, mount_points, volumes) ==
    LET name == Str("States.format('{}-{}-{}', $$.State.Name, job_definition_name, $$.Execution.Name)")
        environment_pairs == IF ~IsStr(environment)
                             THEN to_key_value_pairs(IF environment = Null THEN EmptyObj
                                                     ELSE environment)
                             ELSE environment
        request ==
            Rec(<< <<"jobDefinitionName", name>>,
                   <<"type", Str("container")>>,
                   <<"containerProperties",
                     Rec(<< <<"image", image>>,
                            <<"command", command>>,
                            <<"environment", environment_pairs>>,
                            <<"resourceRequirements",
                              to_resource_requirements(gpu, memory, vcpus)>>,
                            <<"mountPoints", mount_points>>,
                            <<"volumes", volumes>> >>)>>,
                   <<"retryStrategy", build_retry_strategy>> >>)
        parameters == convert_key_case(request)
        start == Pass(parameters, None, None, None)
        register == Task(BATCH_REGISTER, KeyRefs(parameters),
                         Rec(<< <<"JobDefinitionArn.$", Str("$.JobDefinitionArn")>>,
                                <<"JobDefinitionName.$", Str("$.JobDefinitionName")>>,
                                <<"Revision.$", Str("$.Revision")>> >>),
                         "$", "$")
    IN ChainNext(Single(id \o " RegisterJobDefinition Prep", start),
                 Single(id \o " RegisterJobDefinition API Call", register))

submit_job(id, job_name, job_definition, job_queue, parameters, command, environment, memory, vcpus, gpu) ==
    LET name == Str("States.format('{}-" \o job_name
                    \o "-{}', $$.State.Name. $$.Execution.Name)")
        environment_pairs == IF ~IsStr(environment)
                             THEN to_key_value_pairs(IF environment = Null THEN EmptyObj
                                                     ELSE environment)
                             ELSE environment
        container_overrides ==
            Rec(<< <<"command", command>>,
                   <<"environment", environment_pairs>>,
                   <<"resourceRequirements",
                     to_resource_requirements(gpu, memory, vcpus)>> >>)
        request ==
            Rec(<< <<"JobName", name>>,
                   <<"JobDefinition", job_definition>>,
                   <<"JobQueue", job_queue>>,
                   <<"Parameters", parameters>>,
                   <<"ContainerOverrides", container_overrides>> >>)
        converted == convert_key_case(request)
        start == Pass(converted, None, None, None)
        submit == Task(BATCH_SUBMIT, KeyRefs(converted),
                       Rec(<< <<"JobName.$", Str("$.JobName")>>,
                              <<"JobId.$", Str("$.JobId")>>,
                              <<"JobArn.$", Str("$.JobArn")>>,
                              <<"JobQueue.$", Str("$.JobQueue")>> >>),
                       "$", "$")
    IN ChainNext(Single(id \o " SubmitJob Prep", start),
                 Single(id \o " SubmitJob API Call", submit))

deregister_job_definition(id, job_definition) ==
    LET request == Rec(<< <<"jobDefinition", job_definition>> >>)
        parameters == convert_key_case(request)
        start == Pass(parameters, None, None, None)
        deregister == Task(BATCH_DEREGISTER, KeyRefs(parameters), Null, DISCARD, None)
    IN ChainNext(Single(id \o " DeregisterJobDefinition Prep", start),
                 Single(id \o " DeregisterJobDefinition API Call", deregister))

(***************************************************************************)
(* constructs_/sfn/fragments/base.py                                       *)
(***************************************************************************)
\* StateMachineFragment.enclose
enclose(id, definition, result_path) ==
    LET pre == Pass(Rec(<< <<"input", entire_payload>> >>), None, None, None)
        parallel == to_single_state(definition, id \o " Parallel", "$.input", None, "$[0]")
        mod_result_path ==
            IF result_path # None /\ result_path # DISCARD
            THEN PathAdd(JsonReferencePath("$.input"), result_path)
            ELSE JsonReferencePath("$.input")
        post == Pass(Null, "$.result[0]", as_reference(mod_result_path), "$.input")
    IN ChainNext(ChainNext(Single(id \o " Parallel Prep", pre), parallel),
                 Single(id \o " Parallel Post", post))

\* A build that puts the pre-run phase before the started status.
build_definition_pre_first(self) ==
    LET task_input_path == JsonReferencePath("input")
        task_result_path == JsonReferencePath("result")
        task_error_path == JsonReferencePath("error")
        raw_task_input_path == JsonReferencePath("$")
        start == Single(self.task_name \o " Start",
                        Pass(Rec(<< <<"input", object_at(as_reference(raw_task_input_path))>>,
                                    <<"context", EmptyObj>> >>),
                             None, None, None))
        d1 == IF self.task__augment_input # Null
              THEN ChainNext(start,
                             to_single_state(self.task__augment_input,
                                             self.task_name \o " Augment Input", None,
                                             as_reference(task_input_path),
                                             as_reference(task_input_path) \o "[0]"))
              ELSE start
        d2 == IF self.task__pre_run # Null
              THEN ChainNext(d1, to_single_state(self.task__pre_run,
                                                 self.task_name \o " Pre Run",
                                                 None, DISCARD, None))
              ELSE d1
        d3 == IF self.task__status_started # Null
              THEN ChainNext(d2, to_single_state(self.task__status_started,
                                                 self.task_name \o " Status Started",
                                                 None, DISCARD, None))
              ELSE d2
        task_enclosure == to_single_state(self.task, self.task_name \o " Run",
                                          as_reference(task_input_path),
                                          as_reference(task_result_path), None)
        d4 == ChainNext(ChainNext(d3, task_enclosure),
                        Single(self.task_name \o " Run (Restructure)",
                               Pass(Null, as_reference(task_result_path) \o "[0]",
                                    as_reference(task_result_path), None)))
        d5 == IF self.task__status_failed # Null
              THEN add_catch(d4, task_enclosure.start,
                             ChainNext(to_single_state(self.task__status_failed,
                                                       self.task_name \o " Status Failed",
                                                       None, DISCARD, None),
                                       Terminal(self.task_name \o " Fail State",
                                                Fail("Task " \o self.task_name
                                                     \o " failed during execution.",
                                                     "", ""))),
                             as_reference(task_error_path), {"States.ALL"})
              ELSE d4
        d6 == IF self.task__post_run # Null
              THEN ChainNext(d5, to_single_state(self.task__post_run,
                                                 self.task_name \o " Post Run",
                                                 None, DISCARD, None))
              ELSE d5
        definition == IF self.task__status_completed # Null
                      THEN ChainNext(d6, to_single_state(self.task__status_completed,
                                                         self.task_name \o " Status Complete",
                                                         None, DISCARD, None))
                      ELSE d6
        \* definition.next(End): the End state is wired to the end states of
        \* the definition; the chain that next() returns is dropped.
        wired == ChainNext(definition,
                           Single(self.task_name \o " End",
                                  Pass(Null, as_reference(task_result_path), None, None)))
    IN [states |-> wired.states, start |-> definition.start, ends |-> definition.ends]

\* TaskWithPrePostStatus.build_definition.  self is the fragment: its
\* task_name, its task and the chains its task__ properties return, Null
\* for a phase that is not supplied.
build_definition(self) ==
    LET task_input_path == JsonReferencePath("input")
        task_result_path == JsonReferencePath("result")
        task_error_path == JsonReferencePath("error")
        raw_task_input_path == JsonReferencePath("$")
        start == Single(self.task_name \o " Start",
                        Pass(Rec(<< <<"input", object_at(as_reference(raw_task_input_path))>>,
                                    <<"context", EmptyObj>> >>),
                             None, None, None))
        d1 == IF self.task__augment_input # Null
              THEN ChainNext(start,
                             to_single_state(self.task__augment_input,
                                             self.task_name \o " Augment Input", None,
                                             as_reference(task_input_path),
                                             as_reference(task_input_path) \o "[0]"))
              ELSE start
        d2 == IF self.task__status_started # Null
              THEN ChainNext(d1, to_single_state(self.task__status_started,
                                                 self.task_name \o " Status Started",
                                                 None, DISCARD, None))
              ELSE d1
        d3 == IF self.task__pre_run # Null
              THEN ChainNext(d2, to_single_state(self.task__pre_run,
                                                 self.task_name \o " Pre Run",
                                                 None, DISCARD, None))
              ELSE d2
        task_enclosure == to_single_state(self.task, self.task_name \o " Run",
                                          as_reference(task_input_path),
                                          as_reference(task_result_path), None)
        d4 == ChainNext(ChainNext(d3, task_enclosure),
                        Single(self.task_name \o " Run (Restructure)",
                               Pass(Null, as_reference(task_result_path) \o "[0]",
                                    as_reference(task_result_path), None)))
        d5 == IF self.task__status_failed # Null
              THEN add_catch(d4, task_enclosure.start,
                             ChainNext(to_single_state(self.task__status_failed,
                                                       self.task_name \o " Status Failed",
                                                       None, DISCARD, None),
                                       Terminal(self.task_name \o " Fail State",
                                                Fail("Task " \o self.task_name
                                                     \o " failed during execution.",
                                                     "", ""))),
                             as_reference(task_error_path), {"States.ALL"})
              ELSE d4
        d6 == IF self.task__post_run # Null
              THEN ChainNext(d5, to_single_state(self.task__post_run,
                                                 self.task_name \o " Post Run",
                                                 None, DISCARD, None))
              ELSE d5
        definition == IF self.task__status_completed # Null
                      THEN ChainNext(d6, to_single_state(self.task__status_completed,
                                                         self.task_name \o " Status Complete",
                                                         None, DISCARD, None))
                      ELSE d6
        \* definition.next(End): the End state is wired to the end states of
        \* the definition; the chain that next() returns is dropped.
        wired == ChainNext(definition,
                           Single(self.task_name \o " End",
                                  Pass(Null, as_reference(task_result_path), None, None)))
    IN [states |-> wired.states, start |-> definition.start, ends |-> definition.ends]

(***************************************************************************)
(* constructs_/sfn/fragments/batch.py                                      *)
(***************************************************************************)
SubmitJobFragment(id, name, job_queue, image, command, environment, memory, vcpus, gpu, mount_points, volumes) ==
    LET arn == string_at("$.taskResult.register.JobDefinitionArn")
        register_chain ==
            register_job_definition(id, command, image, name, Null, memory, vcpus,
                                    gpu, mount_points, volumes)
        submit_chain ==
            submit_job(id, name, arn, job_queue, Null, command, environment, memory,
                       vcpus, gpu)
        deregister_chain == deregister_job_definition(id, arn)
        try_catch_deregister == deregister_job_definition(id \o " FAIL", arn)
        register == enclose(id \o " Register", register_chain, "$.taskResult.register")
        submit == to_single_state(
                      enclose(id \o " Submit", submit_chain, "$.taskResult.submit"),
                      id \o " Submit", None, None, "$[0]")
        deregister == enclose(id \o " Deregister", deregister_chain,
                              "$.taskResult.deregister")
        caught == add_catch(submit, submit.start,
                            ChainNext(try_catch_deregister,
                                      Terminal(id \o " FAIL",
                                               Fail("", "$.taskResult.submit.cause",
                                                    "$.taskResult.submit.error"))),
                            "$.taskResult.submit", {"States.ALL"})
    IN ChainNext(ChainNext(register, caught), deregister)

(***************************************************************************)
(* BatchInvokedLambdaFunction: put the request, run the job, get the       *)
(* response.                                                               *)
(***************************************************************************)
S3_SCRATCH_KEY_PREFIX == "scratch/"

AWS_LAMBDA_FUNCTION_NAME_KEY == "AWS_LAMBDA_FUNCTION_NAME"

AWS_LAMBDA_FUNCTION_HANDLER_KEY == "AWS_LAMBDA_FUNCTION_HANDLER"

AWS_LAMBDA_EVENT_PAYLOAD_KEY == "AWS_LAMBDA_EVENT_PAYLOAD"

AWS_LAMBDA_EVENT_RESPONSE_LOCATION_KEY == "AWS_LAMBDA_EVENT_RESPONSE_LOCATION"

\* The env base, region and account of the scope the fragment is made in.
ScopeEnvironment ==
    Rec(<< <<"ENV_BASE", Str("dev-marmot")>>, <<"AWS_REGION", Str("us-west-2")>>,
           <<"AWS_ACCOUNT_ID", Str("123456789012")>> >>)

\* Python's truth value of an argument: None, "", [], {} and 0 are false.
Truthy(x) ==
    CASE x.t = "null" -> FALSE
      [] x.t = "str" -> x.v /= ""
      [] x.t = "arr" -> Len(x.v) > 0
      [] x.t = "obj" -> DOMAIN x.v /= {}
      [] x.t = "num" -> x.v /= 0
      [] OTHER -> TRUE

\* `x or d`
Or(x, d) == IF Truthy(x) THEN x ELSE d

\* A merge in which the entries of a are kept.
Merged_first_wins(a, b) == Obj(a.v @@ b.v)

\* {**a, **b}: the entries of b replace those of a.
Merged(a, b) == Obj(b.v @@ a.v)

\* AWSBatchMixins.convert_to_mount_point_and_volumes: one mount point and
\* one volume, named efs-vol<i>, for the i-th configuration.
convert_to_mount_point_and_volumes(mount_point_configs) ==
    LET vol(i) == "efs-vol" \o Digits[i]
        mount_point(i) ==
            Rec(<< <<"ContainerPath", mount_point_configs.v[i].v["mount_point"]>>,
                   <<"SourceVolume", Str(vol(i))>> >>)
        volume(i) ==
            Rec(<< <<"Name", Str(vol(i))>>,
                   <<"EfsVolumeConfiguration",
                     Rec(<< <<"FileSystemId",
                              mount_point_configs.v[i].v["file_system"]>> >>)>> >>)
    IN [mount_points |-> Arr([i \in DOMAIN mount_point_configs.v |-> mount_point(i)]),
        volumes |-> Arr([i \in DOMAIN mount_point_configs.v |-> volume(i)])]

\* A constructor's outcome: the exception it raised (None: it returned),
\* the states it had created by then, and the definition it set.
Raised(error, created) == [raised |-> error, created |-> created, definition |-> Null]

Constructed(chain) ==
    [raised |-> None, created |-> DOMAIN chain.states, definition |-> chain]

\* The constructor with the mount point check made after the put states
\* exist.
BatchInvokedLambdaFunction_check_late(id, name, image, handler, job_queue, bucket_name, key_prefix, payload_path, command, environment, memory, vcpus, mount_points, volumes, mount_point_configs) ==
    LET prefix == OrElse(key_prefix, S3_SCRATCH_KEY_PREFIX)
        request_key == format(prefix \o "{}/request.json", <<execution_name>>)
        response_key == format(prefix \o "{}/response.json", <<execution_name>>)
        put == put_payload(id \o " Put Request to S3", Or(payload_path, entire_payload),
                           bucket_name, request_key, "$.taskResult.put", None)
        converted == convert_to_mount_point_and_volumes(mount_point_configs)
        mps == IF Truthy(mount_point_configs) THEN converted.mount_points
               ELSE mount_points
        vols == IF Truthy(mount_point_configs) THEN converted.volumes ELSE volumes
        default_environment ==
            Merged(ScopeEnvironment,
                   Rec(<< <<AWS_LAMBDA_FUNCTION_NAME_KEY, Str(name)>>,
                          <<AWS_LAMBDA_FUNCTION_HANDLER_KEY, handler>>,
                          <<AWS_LAMBDA_EVENT_PAYLOAD_KEY,
                            format("s3://{}/{}",
                                   <<string_at("$.taskResult.put.Bucket"),
                                     string_at("$.taskResult.put.Key")>>)>>,
                          <<AWS_LAMBDA_EVENT_RESPONSE_LOCATION_KEY,
                            format("s3://{}/{}", <<bucket_name, response_key>>)>> >>))
        submit_job_fragment ==
            SubmitJobFragment(id \o " Batch", name, job_queue, image,
                              Or(command, Arr(<<>>)),
                              Merged(Or(environment, EmptyObj), default_environment),
                              memory, vcpus, Null, Or(mps, Arr(<<>>)),
                              Or(vols, Arr(<<>>)))
        get_response ==
            to_single_state(get_payload(id, bucket_name, response_key, None, None),
                            id \o " Get Response from S3", None, None, "$[0]")
    IN IF Truthy(mount_point_configs) /\ (Truthy(mount_points) \/ Truthy(volumes))
       THEN Raised("ValueError", DOMAIN put.states)
       ELSE Constructed(ChainNext(ChainNext(put, submit_job_fragment), get_response))

\* The constructor with the response fetched before the job is run.
BatchInvokedLambdaFunction_response_first(id, name, image, handler, job_queue, bucket_name, key_prefix, payload_path, command, environment, memory, vcpus, mount_points, volumes, mount_point_configs) ==
    LET prefix == OrElse(key_prefix, S3_SCRATCH_KEY_PREFIX)
        request_key == format(prefix \o "{}/request.json", <<execution_name>>)
        response_key == format(prefix \o "{}/response.json", <<execution_name>>)
        converted == convert_to_mount_point_and_volumes(mount_point_configs)
        mps == IF Truthy(mount_point_configs) THEN converted.mount_points
               ELSE mount_points
        vols == IF Truthy(mount_point_configs) THEN converted.volumes ELSE volumes
        put == put_payload(id \o " Put Request to S3", Or(payload_path, entire_payload),
                           bucket_name, request_key, "$.taskResult.put", None)
        default_environment ==
            Merged(ScopeEnvironment,
                   Rec(<< <<AWS_LAMBDA_FUNCTION_NAME_KEY, Str(name)>>,
                          <<AWS_LAMBDA_FUNCTION_HANDLER_KEY, handler>>,
                          <<AWS_LAMBDA_EVENT_PAYLOAD_KEY,
                            format("s3://{}/{}",
                                   <<string_at("$.taskResult.put.Bucket"),
                                     string_at("$.taskResult.put.Key")>>)>>,
                          <<AWS_LAMBDA_EVENT_RESPONSE_LOCATION_KEY,
                            format("s3://{}/{}", <<bucket_name, response_key>>)>> >>))
        submit_job_fragment ==
            SubmitJobFragment(id \o " Batch", name, job_queue, image,
                              Or(command, Arr(<<>>)),
                              Merged(Or(environment, EmptyObj), default_environment),
                              memory, vcpus, Null, Or(mps, Arr(<<>>)),
                              Or(vols, Arr(<<>>)))
        get_response ==
            to_single_state(get_payload(id, bucket_name, response_key, None, None),
                            id \o " Get Response from S3", None, None, "$[0]")
    IN IF Truthy(mount_point_configs) /\ (Truthy(mount_points) \/ Truthy(volumes))
       THEN Raised("ValueError", {})
       ELSE Constructed(ChainNext(ChainNext(put, get_response), submit_job_fragment))

\* BatchInvokedLambdaFunction.__init__
BatchInvokedLambdaFunction(id, name, image, handler, job_queue, bucket_name, key_prefix, payload_path, command, environment, memory, vcpus, mount_points, volumes, mount_point_configs) ==
    LET prefix == OrElse(key_prefix, S3_SCRATCH_KEY_PREFIX)
        request_key == format(prefix \o "{}/request.json", <<execution_name>>)
        response_key == format(prefix \o "{}/response.json", <<execution_name>>)
        converted == convert_to_mount_point_and_volumes(mount_point_configs)
        mps == IF Truthy(mount_point_configs) THEN converted.mount_points
               ELSE mount_points
        vols == IF Truthy(mount_point_configs) THEN converted.volumes ELSE volumes
        put == put_payload(id \o " Put Request to S3", Or(payload_path, entire_payload),
                           bucket_name, request_key, "$.taskResult.put", None)
        default_environment ==
            Merged(ScopeEnvironment,
                   Rec(<< <<AWS_LAMBDA_FUNCTION_NAME_KEY, Str(name)>>,
                          <<AWS_LAMBDA_FUNCTION_HANDLER_KEY, handler>>,
                          <<AWS_LAMBDA_EVENT_PAYLOAD_KEY,
                            format("s3://{}/{}",
                                   <<string_at("$.taskResult.put.Bucket"),
                                     string_at("$.taskResult.put.Key")>>)>>,
                          <<AWS_LAMBDA_EVENT_RESPONSE_LOCATION_KEY,
                            format("s3://{}/{}", <<bucket_name, response_key>>)>> >>))
        submit_job_fragment ==
            SubmitJobFragment(id \o " Batch", name, job_queue, image,
                              Or(command, Arr(<<>>)),
                              Merged(Or(environment, EmptyObj), default_environment),
                              memory, vcpus, Null, Or(mps, Arr(<<>>)),
                              Or(vols, Arr(<<>>)))
        get_response ==
            to_single_state(get_payload(id, bucket_name, response_key, None, None),
                            id \o " Get Response from S3", None, None, "$[0]")
    IN IF Truthy(mount_point_configs) /\ (Truthy(mount_points) \/ Truthy(volumes))
       THEN Raised("ValueError", {})
       ELSE Constructed(ChainNext(ChainNext(put, submit_job_fragment), get_response))

(***************************************************************************)
(* project/utils.py: the environment base of a CDK application.  A CDK     *)
(* context and the process environment are functions from keys to values,  *)
(* None for a key that is not set; a key of aibs_informatics_core.env is   *)
(* written as the name of its constant.  An EnvBase is its text,           *)
(* "<type>" or "<type>-<label>".                                           *)
(***************************************************************************)
ENV_BASE_KEYS == <<"ENV_BASE_KEY", "ENV_BASE_KEY_ALIAS", "env">>

ENV_TYPE_KEYS == <<"ENV_TYPE_KEY", "ENV_TYPE_KEY_ALIAS">>

ENV_LABEL_KEYS == <<"ENV_LABEL_KEY", "ENV_LABEL_KEY_ALIAS", "LABEL_KEY", "LABEL_KEY_ALIAS">>

\* _get_from_context(node, keys): the value of the first key that has one.
RECURSIVE get_from_context(_, _)
get_from_context(node, keys) ==
    IF keys = <<>> THEN None
    ELSE IF node[Head(keys)] # None THEN node[Head(keys)]
    ELSE get_from_context(node, Tail(keys))

\* get_env_var(*keys): the value of the first variable that is set.
get_env_var(environ, keys) == get_from_context(environ, keys)

\* EnvBase.from_type_and_label
from_type_and_label(env_type, env_label) ==
    IF env_label = None THEN env_type ELSE env_type \o "-" \o env_label

\* EnvBase.load_env_label__from_env
load_env_label__from_env(environ) == get_env_var(environ, ENV_LABEL_KEYS)

\* EnvBase.from_env: the base variable, else the type variable with the
\* label variable; it raises when neither is set.
from_env(environ) ==
    LET env_base == get_env_var(environ, <<"ENV_BASE_KEY", "ENV_BASE_KEY_ALIAS">>)
        env_type == get_env_var(environ, ENV_TYPE_KEYS)
    IN IF env_base # None THEN Ok(env_base)
       ELSE IF env_type # None
            THEN Ok(from_type_and_label(env_type, load_env_label__from_env(environ)))
            ELSE Bad

\* s.split(".")[0]
RECURSIVE FirstComponent(_)
FirstComponent(s) ==
    IF s = "" \/ SubSeq(s, 1, 1) = "." THEN ""
    ELSE SubSeq(s, 1, 1) \o FirstComponent(SubSeq(s, 2, Len(s)))

\* A resolution that reads the environment before the type of the context.
get_env_base_env_first(node, environ) ==
    LET env_base_str == get_from_context(node, ENV_BASE_KEYS)
        env_type_str == get_from_context(node, ENV_TYPE_KEYS)
        env_label__from_context == get_from_context(node, ENV_LABEL_KEYS)
        env_label__from_env == load_env_label__from_env(environ)
        loaded == from_env(environ)
    IN IF env_base_str # None THEN env_base_str
       ELSE IF loaded.ok THEN loaded.v
       ELSE IF env_type_str # None
            THEN from_type_and_label(env_type_str,
                                     OrElse(env_label__from_context, env_label__from_env))
       ELSE from_type_and_label("dev", OrElse(env_label__from_context, "anonymous"))

get_env_base(node, environ) ==
    LET env_base_str == get_from_context(node, ENV_BASE_KEYS)
        env_type_str == get_from_context(node, ENV_TYPE_KEYS)
        env_label__from_context == get_from_context(node, ENV_LABEL_KEYS)
        env_label__from_env == load_env_label__from_env(environ)
        loaded == from_env(environ)
        user == OrElse(get_env_var(environ, <<"USER">>), "anonymous")
    IN IF env_base_str # None THEN env_base_str
       ELSE IF env_type_str # None
            THEN from_type_and_label(env_type_str,
                                     OrElse(env_label__from_context, env_label__from_env))
       ELSE IF loaded.ok THEN loaded.v
       ELSE from_type_and_label(
                "dev",
                IF env_label__from_context # None THEN env_label__from_context
                ELSE IF env_label__from_env # None THEN env_label__from_env
                ELSE FirstComponent(user))

(***************************************************************************)
(* BatchInvokedExecutorFragment: put the request, run the executor in a    *)
(* job, get the response.                                                  *)
(***************************************************************************)
\* JsonPath.format renders an argument that is a plain Python string as a
\* quoted literal of the intrinsic: Str("$.Bucket") here stays text.
BatchInvokedExecutorFragment(id, name, image, executor, job_queue, bucket_name, key_prefix, payload_path, environment, memory, vcpus, mount_point_configs, mount_points, volumes) ==
    LET prefix == OrElse(key_prefix, S3_SCRATCH_KEY_PREFIX)
        request_key == format(prefix \o "{}/request.json", <<execution_name>>)
        response_key == format(prefix \o "{}/response.json", <<execution_name>>)
        converted == convert_to_mount_point_and_volumes(mount_point_configs)
        mps == IF Truthy(mount_point_configs) THEN converted.mount_points
               ELSE mount_points
        vols == IF Truthy(mount_point_configs) THEN converted.volumes ELSE volumes
        put == put_payload(id \o " Put Request to S3", Or(payload_path, entire_payload),
                           bucket_name, request_key, "$.taskResult.put", None)
        command ==
            Arr(<<Str("run_cli_executor"), Str("--executor"), executor,
                  Str("--input"),
                  format("s3://{}/{}", <<Str("$.Bucket"), Str("$.Key")>>),
                  Str("--output-location"),
                  format("s3://{}/{}", <<bucket_name, response_key>>)>>)
        submit_job_fragment ==
            SubmitJobFragment(id \o "Batch", name, job_queue, image, command,
                              environment, memory, vcpus, Null, Or(mps, Arr(<<>>)),
                              Or(vols, Arr(<<>>)))
        get_response ==
            to_single_state(get_payload(id, bucket_name, response_key, None, None),
                            id \o " Get Response from S3", None, None, "$[0]")
    IN IF Truthy(mount_point_configs) /\ (Truthy(mount_points) \/ Truthy(volumes))
       THEN Raised("ValueError", {})
       ELSE Constructed(ChainNext(ChainNext(put, submit_job_fragment), get_response))

(***************************************************************************)
(* DemandExecutionFragment: scaffolding, setup, the job, cleanup.          *)
(***************************************************************************)
START_EXECUTION == "arn:aws:states:::states:startExecution.sync:2"

\* sfn_tasks.StepFunctionsStartExecution(scope, id, state_machine=...,
\* integration_pattern=RUN_JOB, associate_with_parent=False, ...): the
\* state's input is the input of the execution it starts.
StepFunctionsStartExecution(id, state_machine, input_path, result_path, output_path) ==
    Single(id, [Task(START_EXECUTION,
                     Rec(<< <<"Input.$", Str("$")>>,
                            <<"StateMachineArn", Str(state_machine)>> >>),
                     Null, result_path, output_path)
                EXCEPT !.InputPath = OrElse(input_path, "$")])

\* CommonOperation.enclose_chainable: the chain as the branch of a
\* Parallel state that reads input_path and writes at result_path, and a
\* Pass state that puts the branch's output in place of the array.
enclose_chainable(id, definition, input_path, result_path) ==
    LET ip == OrElse(input_path, "$")
        rp == OrElse(result_path, ip)
        parallel == to_single_state(definition, id \o " Enclosure", ip, rp, None)
        restructure == Pass(Null, rp \o "[0]", rp, None)
    IN IF rp = DISCARD THEN parallel
       ELSE ChainNext(parallel, Single(id \o " Enclosure Post", restructure))

\* MountPointConfiguration.to_batch_mount_point(name, sfn_format=True)
to_batch_mount_point(config, name) ==
    Rec(<< <<"ContainerPath", config.v["mount_point"]>>,
           <<"SourceVolume", Str(name)>> >>)

\* MountPointConfiguration.to_batch_volume(name, sfn_format=True)
to_batch_volume(config, name) ==
    Rec(<< <<"Name", Str(name)>>,
           <<"EfsVolumeConfiguration",
             Rec(<< <<"FileSystemId", config.v["file_system"]>> >>)>> >>)

\* The entry of file_system_configurations for a configuration.
FileSystemEntry(config) ==
    Rec(<< <<"file_system", config.v["file_system"]>>,
           <<"access_point", config.v["access_point"]>>,
           <<"container_path", config.v["mount_point"]>> >>)

\* The mount points (or volumes) of a list of configurations, named
\* <kind>0, <kind>1, ...
NamedBy(configs, kind, make(_, _)) ==
    [i \in DOMAIN configs.v |-> make(configs.v[i], kind \o Digits[i])]

SCAFFOLDING_HANDLER == "aibs_informatics_aws_lambda.handlers.demand.scaffolding.handler"

CREATE_HANDLER == "aibs_informatics_aws_lambda.handlers.batch.create.handler"

REMOVE_HANDLER == "aibs_informatics_aws_lambda.handlers.data_sync.remove_data_paths_handler"

\* DemandExecutionFragment.__init__
DemandExecutionFragment(id, aibs_informatics_docker_asset, scaffolding_bucket, scaffolding_job_queue, batch_invoked_lambda_state_machine, data_sync_state_machine, shared_mount_point_config, scratch_mount_point_config, tmp_mount_point_config, file_system_selection_strategy, context_manager_configuration) ==
    LET config_scaffolding_path == "config.scaffolding"
        config_setup_results_path == config_scaffolding_path \o ".setup_results"
        config_batch_args_path == config_setup_results_path \o ".batch_args"
        config_cleanup_results_path == "tasks.cleanup.cleanup_results"
        tmp == Or(tmp_mount_point_config, Arr(<<>>))
        mount_points ==
            Arr(NamedBy(shared_mount_point_config, "shared", to_batch_mount_point)
                \o NamedBy(scratch_mount_point_config, "scratch", to_batch_mount_point)
                \o NamedBy(tmp, "tmp", to_batch_mount_point))
        volumes ==
            Arr(NamedBy(shared_mount_point_config, "shared", to_batch_volume)
                \o NamedBy(scratch_mount_point_config, "scratch", to_batch_volume)
                \o NamedBy(tmp, "tmp", to_batch_volume))
        entries(configs) == Arr([i \in DOMAIN configs.v |-> FileSystemEntry(configs.v[i])])
        file_system_configurations ==
            Merged(Rec(<< <<"selection_strategy",
                            Str(OrElse(file_system_selection_strategy, "LEAST_UTILIZED"))>>,
                          <<"shared", entries(shared_mount_point_config)>>,
                          <<"scratch", entries(scratch_mount_point_config)>> >>),
                   IF Truthy(tmp_mount_point_config)
                   THEN Rec(<< <<"tmp", entries(tmp_mount_point_config)>> >>)
                   ELSE EmptyObj)
        request ==
            Merged(Rec(<< <<"demand_execution", object_at("$")>>,
                          <<"file_system_configurations", file_system_configurations>> >>),
                   IF Truthy(context_manager_configuration)
                   THEN Rec(<< <<"context_manager_configuration",
                                 context_manager_configuration>> >>)
                   ELSE EmptyObj)
        invoke(handler) ==
            Rec(<< <<"handler", Str(handler)>>,
                   <<"payload", object_at("$")>>,
                   <<"bucket_name", Str(scaffolding_bucket)>>,
                   <<"image", Str(aibs_informatics_docker_asset)>>,
                   <<"job_queue", Str(scaffolding_job_queue)>>,
                   <<"mount_points", mount_points>>,
                   <<"volumes", volumes>> >>)
        lambda_task(name, handler) ==
            ChainNext(Single("Pass: " \o name, Pass(invoke(handler), None, None, None)),
                      StepFunctionsStartExecution("SM: " \o name,
                                                  batch_invoked_lambda_state_machine,
                                                  "$", None, "$.Output"))
        start_state ==
            Single("Start Demand Batch Task",
                   Pass(Rec(<< <<"request", request>> >>), None, None, None))
        prep_scaffolding_task ==
            enclose_chainable("Prepare Demand Scaffolding",
                              lambda_task("Prepare Demand Scaffolding",
                                          SCAFFOLDING_HANDLER),
                              "$.request", "$." \o config_scaffolding_path)
        create_def_and_prepare_job_args_task ==
            enclose_chainable("Create Definition and Prep Job Args",
                              lambda_task("Create Definition and Prep Job Args",
                                          CREATE_HANDLER),
                              "$.batch_create_request", "$")
        setup_tasks ==
            branch(branch(Parallel("Execution Setup Steps",
                                   "$." \o config_scaffolding_path \o ".setup_configs",
                                   "$." \o config_setup_results_path,
                                   Rec(<< <<"batch_args.$", Str("$[0]")>> >>)),
                          create_def_and_prepare_job_args_task),
                   Map("Transfer Inputs TO Batch Job", "$.data_sync_requests", None, None,
                       StepFunctionsStartExecution("Transfer Input",
                                                   data_sync_state_machine,
                                                   None, DISCARD, None)))
        args(name) == Str("$." \o config_batch_args_path \o "." \o name)
        execution_task ==
            Single("Submit Batch Job",
                   Task(BATCH_SUBMIT,
                        Rec(<< <<"JobName.$", args("job_name")>>,
                               <<"JobDefinition.$", args("job_definition_arn")>>,
                               <<"JobQueue.$", args("job_queue_arn")>>,
                               <<"Parameters.$", args("parameters")>>,
                               <<"ContainerOverrides.$", args("container_overrides")>> >>),
                        Null, "$.tasks.batch_submit_task", None))
        cleanup_configs == "$." \o config_scaffolding_path \o ".cleanup_configs"
        cleanup_tasks ==
            ChainNext(
                Map("Transfer Results FROM Batch Job", None,
                    cleanup_configs \o ".data_sync_requests",
                    "$." \o config_cleanup_results_path \o ".transfer_results",
                    StepFunctionsStartExecution("Transfer Result", data_sync_state_machine,
                                                None, DISCARD, None)),
                Choice("Cleanup Choice", cleanup_configs \o ".remove_data_paths_requests",
                       Map("Map: Cleanup Data Paths", None,
                           cleanup_configs \o ".remove_data_paths_requests",
                           "$." \o config_cleanup_results_path
                               \o ".remove_data_paths_results",
                           enclose_chainable("Cleanup Data Path",
                                             lambda_task("Cleanup Data Path",
                                                         REMOVE_HANDLER),
                                             None, None)),
                       Single("No Data Paths to Cleanup", Pass(Null, None, None, None))))
    IN ChainNext(ChainNext(ChainNext(ChainNext(start_state, prep_scaffolding_task),
                                     setup_tasks),
                           execution_task),
                 cleanup_tasks)

(***************************************************************************)
(* Scenarios: the arguments a workflow is built with, the input document   *)
(* of its executions and the faults the services it calls will answer      *)
(* with.                                                                   *)
(***************************************************************************)
\* Bounds.
MaxExecs == 2

ExecNames == <<"e", "e1-", "x">>

UUIDs == {"u", "1-u"}

Obj_ab == Rec(<< <<"a", Str("b")>> >>)

Obj_nested == Rec(<< <<"a", Obj_ab>>, <<"n", Arr(<<Num(12), Str("x")>>)>> >>)

\* The values a payload takes: objects, and strings of three kinds (no
\* JSON, a JSON number, a JSON object).
PayloadValues == {Obj_ab, Obj_nested, EmptyObj, Str("hello"), Str("12"),
                  Str("{\"a\": \"b\"}")}

InputOf(v) ==
    Rec(<< <<"bucket", Str("bkt")>>, <<"key", Str("dir/k")>>, <<"data", v>> >>)

NoFaults == [r \in {} |-> ""]

FaultOf(resource, error) == (resource :> error)

NoAnswers == [r \in {} |-> Null]

\* A resource that stands for any task a caller supplies.
OPAQUE == "arn:aws:states:::lambda:invoke"

\* What Batch answers: the definition registered, the job run.
Registered(arn) ==
    Rec(<< <<"JobDefinitionArn", Str(arn)>>, <<"JobDefinitionName", Str("job")>>,
           <<"Revision", Num(1)>>, <<"ResponseMetadata", EmptyObj>> >>)

Submitted ==
    Rec(<< <<"JobName", Str("job")>>, <<"JobId", Str("id-1")>>,
           <<"JobArn", Str("arn:job/id-1")>>, <<"JobQueue", Str("arn:queue/q")>>,
           <<"Status", Str("SUCCEEDED")>> >>)

BatchAnswers(arn) ==
    [r \in {BATCH_REGISTER, BATCH_SUBMIT, BATCH_DEREGISTER} |->
        IF r = BATCH_REGISTER THEN Registered(arn)
        ELSE IF r = BATCH_SUBMIT THEN Submitted
        ELSE EmptyObj]

\* A document that has an `input` and a `result` of its own.
Obj_shaped ==
    Rec(<< <<"input", Obj_ab>>, <<"result", Arr(<<Str("y")>>)>> >>)

SubmitJobScenarios ==
    [wf : {"submit_job"},
     environment : {Null, Rec(<< <<"FOO", Str("bar")>> >>)},
     memory : {Null, Num(2048)},
     input : {Obj_ab, Obj_shaped},
     faults : {NoFaults, FaultOf(BATCH_REGISTER, "Batch.ClientException"),
               FaultOf(BATCH_SUBMIT, "Batch.ServerException"),
               FaultOf(BATCH_SUBMIT, "States.TaskFailed"),
               FaultOf(BATCH_DEREGISTER, "Batch.ClientException")},
     answers : {BatchAnswers("arn:jd/job:1"), BatchAnswers("arn:jd/job:2")}]

EncloseScenarios ==
    [wf : {"enclose"},
     chain : {"task", "pass"},
     result_path : {None, "$.r", "$.taskResult.register"},
     input : {Obj_ab, Obj_shaped},
     faults : {NoFaults, FaultOf(OPAQUE, "Lambda.ServiceException")},
     answers : {(OPAQUE :> v) : v \in {Str("done"), Obj_ab, Obj_shaped}}]

PutObjectScenarios ==
    [wf : {"put_object"},
     bucket_name : {Str("bkt"), Str("$.bucket")},
     key : {Str("k"), Str("$.key")},
     body : {Str("hello"), Str("$.data")},
     result_path : {None, "$", "$.out", "$.data.loc"},
     output_path : {None, "$.out"},
     input : {InputOf(Obj_ab)},
     faults : {NoFaults, FaultOf(S3_PUT, "S3.S3Exception")},
     answers : {NoAnswers}]

PayloadScenarios ==
    [wf : {"payload"},
     bucket_name : {Str("bkt"), Str("$.bucket")},
     key : {Null, Str("$.key")},
     payload : {Str("$.data")},
     input : {InputOf(v) : v \in PayloadValues},
     faults : {NoFaults, FaultOf(S3_GET, "S3.S3Exception")},
     answers : {NoAnswers}]

\* The text of the object that is in the bucket before a get.
StoredTexts == {Serialize(Obj_ab), Serialize(Obj_nested), "hello"}

\* A context that also has the Bucket and the Key at its top.
Obj_located ==
    Rec(<< <<"bucket", Str("bkt")>>, <<"key", Str("dir/k")>>,
           <<"Bucket", Str("bkt")>>, <<"Key", Str("dir/k")>> >>)

GetScenarios ==
    [wf : {"get_object", "get_payload"},
     bucket_name : {Str("bkt"), Str("$.bucket")},
     key : {Str("dir/k"), Str("$.key")},
     result_path : {"$", "$.out"},
     output_path : {"$"},
     stored : StoredTexts,
     input : {InputOf(Str("d")), Obj_located},
     faults : {NoFaults, FaultOf(S3_GET, "S3.S3Exception")},
     answers : {NoAnswers}]

\* A context that holds the arguments of a job.
Obj_jobargs ==
    Rec(<< <<"name", Str("from-context")>>,
           <<"image", Str("img:1")>>,
           <<"command", Arr(<<Str("run")>>)>>,
           <<"env", Arr(<<Rec(<< <<"Name", Str("FOO")>>, <<"Value", Str("bar")>> >>)>>)>>,
           <<"memory", Str("2048")>>,
           <<"vcpus", Str("2")>>,
           <<"gpu", Str("1")>>,
           <<"jd", Str("arn:jd/job:1")>>,
           <<"queue", Str("q")>> >>)

BatchResources == {BATCH_REGISTER, BATCH_SUBMIT, BATCH_DEREGISTER}

\* Every call of the Batch service is throttled.
Throttled == [r \in BatchResources |-> "Batch.BatchException"]

\* One operation of BatchOperation on its own; refs: its arguments are
\* reference paths into the context, not literals.
BatchOpScenarios ==
    [wf : {"batch_op"},
     op : {"register", "submit", "deregister"},
     refs : BOOLEAN,
     name : {"test-def", "nightly"},
     input : {Obj_jobargs},
     faults : {NoFaults, Throttled},
     answers : {BatchAnswers("arn:jd/job:1")}]

\* The chain of a BatchOperation scenario.
BatchOp(c) ==
    LET arg(path, literal) == IF c.refs THEN Str(path) ELSE literal
        command == arg("$.command", Arr(<<Str("run")>>))
        image == arg("$.image", Str("img:1"))
        environment == arg("$.env", Rec(<< <<"FOO", Str("bar")>> >>))
        memory == arg("$.memory", Num(2048))
        vcpus == arg("$.vcpus", Num(2))
        gpu == arg("$.gpu", Num(1))
        job_definition == arg("$.jd", Str("arn:jd/job:1"))
    IN CASE c.op = "register" ->
              register_job_definition("Reg", command, image, c.name, environment,
                                      memory, vcpus, gpu, Null, Null)
         [] c.op = "submit" ->
              submit_job("Sub", c.name, job_definition, arg("$.queue", Str("q")),
                         EmptyObj, command, environment, memory, vcpus, gpu)
         [] c.op = "deregister" ->
              deregister_job_definition("Dereg", job_definition)

MaxLen == 5

\* The strings of at most n characters of a path: letters, ".", "$".
RECURSIVE Contents(_)
Contents(n) ==
    IF n = 0 THEN {""}
    ELSE {""} \cup {c \o t : c \in {"a", "b", ".", "$"}, t \in Contents(n - 1)}

PathScenarios == [wf : {"path"}, content : Contents(MaxLen)]

MaxDepth == 2

\* The leaves of a parameters tree: literals, reference paths, an
\* intrinsic function, an unresolved token, a number, null.
Leaves ==
    {Str("lit"), Str("a$.b"), Str("$.a"), Str("States.Format('x')"),
     Str("${Token[T.1]}"), Num(1), Null}

\* The parameters trees of at most n levels of objects and arrays.
RECURSIVE Trees(_)
Trees(n) ==
    IF n = 0 THEN Leaves
    ELSE Leaves
         \cup {Rec(<< <<"k", x>> >>) : x \in Trees(n - 1)}
         \cup {Rec(<< <<"k", x>>, <<"j", Str("$.j")>> >>) : x \in Trees(n - 1)}
         \cup {Arr(<<x>>) : x \in Trees(n - 1)}
         \cup {Arr(<<Str("lit"), x>>) : x \in Trees(n - 1)}

ConvertScenarios == [wf : {"convert"}, parameters : Trees(MaxDepth)]

\* A mount point configuration, a mount point and a volume.
Efs_config ==
    Rec(<< <<"file_system", Str("fs-1")>>, <<"access_point", Str("fsap-1")>>,
           <<"mount_point", Str("/mnt/efs")>> >>)

Raw_mount_point ==
    Rec(<< <<"ContainerPath", Str("/opt/data")>>, <<"SourceVolume", Str("data")>> >>)

Raw_volume == Rec(<< <<"Name", Str("data")>> >>)

\* A caller's environment that names the variables the fragment sets.
Env_overriding ==
    Rec(<< <<"FOO", Str("bar")>>,
           <<AWS_LAMBDA_FUNCTION_HANDLER_KEY, Str("other.handler")>>,
           <<AWS_LAMBDA_EVENT_PAYLOAD_KEY, Str("s3://other/request")>>,
           <<AWS_LAMBDA_EVENT_RESPONSE_LOCATION_KEY, Str("s3://other/response")>> >>)

\* BatchInvokedLambdaFunction made with and without each of the three
\* mount arguments; mount_points and volumes may be reference paths.
LambdaFunctionScenarios ==
    [wf : {"lambda_function"},
     mount_point_configs : {Null, Arr(<<>>), Arr(<<Efs_config>>),
                            Arr(<<Efs_config, Efs_config>>)},
     mount_points : {Null, Arr(<<>>), Arr(<<Raw_mount_point>>), Str("$.mounts")},
     volumes : {Null, Arr(<<Raw_volume>>)},
     key_prefix : {None, "jobs/"},
     environment : {Null, Rec(<< <<"FOO", Str("bar")>> >>), Env_overriding},
     input : {Obj_ab},
     faults : {NoFaults, FaultOf(S3_PUT, "S3.S3Exception"),
               FaultOf(BATCH_SUBMIT, "Batch.ServerException")},
     answers : {BatchAnswers("arn:jd/job:1")}]

\* The settings of a context or of an environment: the keys named in the
\* pairs have the values given, every other key has none.
Settings(keys, pairs) ==
    [k \in keys |->
        IF \E i \in DOMAIN pairs : pairs[i][1] = k
        THEN pairs[CHOOSE i \in DOMAIN pairs : pairs[i][1] = k][2]
        ELSE None]

KeysOf(lists) == UNION {{l[i] : i \in DOMAIN l} : l \in lists}

ContextKeys == KeysOf({ENV_BASE_KEYS, ENV_TYPE_KEYS, ENV_LABEL_KEYS})

EnvironKeys == (ContextKeys \ {"env"}) \cup {"USER"}

\* get_env_base(node) on a context and an environment in which a base, a
\* type and a label are each set or not, under a first or a later key.
EnvBaseScenarios ==
    {[wf |-> "env_base",
      node |-> Settings(ContextKeys, b \o t \o l),
      environ |-> Settings(EnvironKeys, eb \o et \o el \o u)] :
        b \in {<<>>, << <<"ENV_BASE_KEY", "dev-a">> >>, << <<"env", "prod">> >>,
               << <<"ENV_BASE_KEY", "dev-a">>, <<"env", "prod">> >>},
        t \in {<<>>, << <<"ENV_TYPE_KEY", "test">> >>},
        l \in {<<>>, << <<"ENV_LABEL_KEY", "cl">> >>, << <<"LABEL_KEY_ALIAS", "ca">> >>},
        eb \in {<<>>, << <<"ENV_BASE_KEY_ALIAS", "prod-e">> >>},
        et \in {<<>>, << <<"ENV_TYPE_KEY_ALIAS", "prod">> >>},
        el \in {<<>>, << <<"LABEL_KEY", "el">> >>},
        u \in {<<>>, << <<"USER", "marmot.dev">> >>, << <<"USER", "marmotdev">> >>}}

\* BatchInvokedExecutorFragment(scope, "E", ...) and one execution of it.
ExecutorScenarios ==
    [wf : {"executor"},
     mount_point_configs : {Null, Arr(<<Efs_config>>)},
     key_prefix : {None, "jobs/"},
     input : {Obj_ab},
     faults : {NoFaults, FaultOf(S3_PUT, "S3.S3Exception")},
     answers : {BatchAnswers("arn:jd/job:1")}]

\* The data sync requests of a demand execution: n inputs, one output.
MaxRequests == 2

SyncRequest(dir, i) ==
    Rec(<< <<"source_path", Str("s3://" \o dir \o "/" \o Digits[i + 1])>>,
           <<"destination_path", Str("/mnt/efs/" \o dir \o "/" \o Digits[i + 1])>> >>)

SyncRequests(dir, n) == Arr([i \in 1..n |-> SyncRequest(dir, i)])

\* What the create handler answers: the arguments of the job.
BatchArgs(job_name) ==
    Rec(<< <<"job_name", Str(job_name)>>,
           <<"job_definition_arn", Str("arn:jd/demand:1")>>,
           <<"job_queue_arn", Str("arn:queue/q")>>,
           <<"parameters", EmptyObj>>,
           <<"container_overrides", Rec(<< <<"Command", Arr(<<Str("run")>>)>> >>)>> >>)

\* What the scaffolding handler answers: the setup and cleanup
\* configurations, with or without data paths to remove.
Scaffolding(n, remove) ==
    Rec(<< <<"setup_configs",
             Rec(<< <<"batch_create_request", Rec(<< <<"image", Str("img:1")>> >>)>>,
                    <<"data_sync_requests", SyncRequests("in", n)>> >>)>>,
           <<"cleanup_configs",
             Merged(Rec(<< <<"data_sync_requests", SyncRequests("out", 1)>> >>),
                    IF remove
                    THEN Rec(<< <<"remove_data_paths_requests",
                                  Arr(<<Rec(<< <<"paths", Arr(<<Str("/mnt/efs/in")>>)>> >>)>>)>> >>)
                    ELSE EmptyObj)>> >>)

DemandAnswers(n, batch_args, remove) ==
    (SCAFFOLDING_HANDLER :> Scaffolding(n, remove)) @@ (CREATE_HANDLER :> batch_args)
        @@ (REMOVE_HANDLER :> EmptyObj) @@ (BATCH_SUBMIT :> Submitted)

\* The executions a demand execution starts fail with States.TaskFailed.
DemandFaults ==
    {NoFaults}
        \cup {FaultOf(t, "States.TaskFailed") :
                 t \in {SCAFFOLDING_HANDLER, CREATE_HANDLER, BATCH_SUBMIT, "s3://in/1",
                        "s3://in/2", "s3://out/1"}}
        \cup {FaultOf(BATCH_SUBMIT, "Batch.ServerException")}

DemandScenarios ==
    {[wf |-> "demand", requests |-> n, batch_args |-> x, remove |-> r, tmp |-> t,
      input |-> Obj_ab, faults |-> f, answers |-> DemandAnswers(n, x, r)] :
        n \in 0..MaxRequests, x \in {BatchArgs("a"), BatchArgs("b"), Str("none")},
        r \in BOOLEAN, t \in {Null, Arr(<<Efs_config>>)}, f \in DemandFaults}

\* The scenarios whose graph is not built at construction, or that build
\* no graph.
Lazy == {"prepost", "path", "convert", "lambda_function", "env_base"}

Phases == {"augment", "started", "pre", "failed", "post", "completed"}

PhaseResource(kind) == OPAQUE \o ":" \o kind

PhaseAnswers ==
    [r \in {OPAQUE} \cup {PhaseResource(k) : k \in Phases} |->
        IF r = OPAQUE THEN Obj_ab ELSE Str("status")]

PrePostScenarios ==
    [wf : {"prepost"},
     phases : SUBSET Phases,
     input : {Obj_nested},
     faults : {NoFaults, FaultOf(OPAQUE, "Lambda.ServiceException"),
               FaultOf(OPAQUE, "States.Timeout"),
               FaultOf(OPAQUE, "States.Runtime"),
               FaultOf(OPAQUE, "Lambda.ServiceException")
                   @@ FaultOf(PhaseResource("failed"), "Lambda.TooManyRequestsException"),
               FaultOf(PhaseResource("post"), "Lambda.ServiceException")},
     answers : {PhaseAnswers}]

Scenarios ==
    PutObjectScenarios \cup PayloadScenarios \cup SubmitJobScenarios
        \cup EncloseScenarios \cup PrePostScenarios \cup GetScenarios
        \cup PathScenarios \cup ConvertScenarios \cup BatchOpScenarios
        \cup LambdaFunctionScenarios \cup DemandScenarios \cup ExecutorScenarios
        \cup EnvBaseScenarios

\* The chain a subclass supplies for a phase: one task.  The augment
\* phase writes into the context it is given; the others answer with a
\* status.
PhaseChain(kind) ==
    Single(kind \o " step",
           Task(PhaseResource(kind), Null, Null,
                IF kind = "augment" THEN "$.context.augment" ELSE None, None))

\* The TaskWithPrePostStatus fragment of a scenario.
Fragment(c) ==
    LET phase(kind) == IF kind \in c.phases THEN PhaseChain(kind) ELSE Null
    IN [task_name |-> "T",
        task |-> Single("T step", Task(OPAQUE, Null, Null, None, None)),
        task__augment_input |-> phase("augment"),
        task__status_started |-> phase("started"),
        task__pre_run |-> phase("pre"),
        task__status_failed |-> phase("failed"),
        task__post_run |-> phase("post"),
        task__status_completed |-> phase("completed")]

\* The chain a caller hands to enclose: one task, or one Pass state.
InnerChain(kind) ==
    IF kind = "task" THEN Single("Inner Task", Task(OPAQUE, Null, Null, None, None))
    ELSE Single("Inner Pass", Pass(Null, None, None, None))

\* The graph a scenario's constructor builds.
Build(c) ==
    CASE c.wf = "put_object" ->
           put_object("Put", c.bucket_name, c.key, c.body, c.result_path,
                      c.output_path)
      [] c.wf = "payload" ->
           ChainNext(put_payload("Put", c.payload, c.bucket_name, c.key, None, None),
                     get_payload("Get", Str("$.Bucket"), Str("$.Key"), None, None))
      [] c.wf = "submit_job" ->
           SubmitJobFragment("Job", "job", Str("q"), Str("img:1"), Arr(<<Str("run")>>),
                             c.environment, c.memory, Num(2), Null, Null, Null)
      [] c.wf = "enclose" ->
           enclose("Enc", InnerChain(c.chain), c.result_path)
      [] c.wf = "batch_op" -> BatchOp(c)
      [] c.wf = "get_object" ->
           get_object("Get", c.bucket_name, c.key, c.result_path, c.output_path)
      [] c.wf = "get_payload" ->
           get_payload("Get", c.bucket_name, c.key, c.result_path, c.output_path)
      [] c.wf = "executor" ->
           BatchInvokedExecutorFragment("E", "exe", Str("img:1"), Str("pkg.mod.Executor"),
                                        Str("q"), Str("bkt"), c.key_prefix, Null, Null,
                                        Num(2048), Num(2), c.mount_point_configs, Null,
                                        Null).definition
      [] c.wf = "demand" ->
           DemandExecutionFragment("Demand", "img:1", "bkt", "q", "arn:sm/lambda",
                                   "arn:sm/sync", Arr(<<Efs_config>>),
                                   Arr(<<Efs_config>>), c.tmp, None, Null)

(***************************************************************************)
(* Execution.                                                              *)
(***************************************************************************)
VARIABLES
    cfg,     \* the scenario
    graph,   \* the chain built for it
    exec,    \* the running execution: its name and its number
    status,  \* IDLE, RUNNING, ENDED (a branch or the execution reached End),
             \* THROWN (an error looks for a catcher), SUCCEEDED, FAILED
    pc,      \* the state that runs next, or that ended or raised
    ctx,     \* the input of that state, or its output once it ended
    stack,   \* the Parallel states entered and their raw inputs
    thrown,  \* the error raised
    hist,    \* the states entered by this execution, in order
    calls,   \* the service calls made by this execution, in order
    s3,      \* the object store: <<bucket, key>> -> text
    puts,    \* the objects stored, over all executions
    builds,  \* the number of times build_definition has run
    lastRead, \* what the last read of the fragment's properties returned
    result   \* the last call of a utility or a constructor: op, arg, out

vars == <<cfg, graph, exec, status, pc, ctx, stack, thrown, hist, calls, s3, puts,
          builds, lastRead, result>>

NoResult == [op |-> "", arg |-> Null, out |-> Null]

\* A definition and the build that made it; gen = 0: no definition yet.
Graph(chain, gen) ==
    [states |-> chain.states, start |-> chain.start, ends |-> chain.ends, gen |-> gen]

Unbuilt == [states |-> <<>>, start |-> "", ends |-> {}, gen |-> 0]

NoRead == [what |-> "", gen |-> 0, cached |-> FALSE, value |-> {}]

NoThrow == [origin |-> "", at |-> "", raw |-> Null, Error |-> "", Cause |-> "",
            fail |-> FALSE]

Init ==
    /\ cfg \in Scenarios
    /\ graph = IF cfg.wf \in Lazy THEN Unbuilt ELSE Graph(Build(cfg), 1)
    /\ builds = 0
    /\ lastRead = NoRead
    /\ result = NoResult
    /\ exec = [name |-> "", n |-> 0]
    /\ status = "IDLE"
    /\ pc = ""
    /\ ctx = Null
    /\ stack = <<>>
    /\ thrown = NoThrow
    /\ hist = <<>>
    /\ calls = <<>>
    /\ s3 = IF cfg.wf \in {"get_object", "get_payload"}
            THEN (<<"bkt", "dir/k">> :> cfg.stored) ELSE <<>>
    /\ puts = {}

Def(n) == graph.states[n]

Env(u) == [exec |-> exec.name, state |-> pc, uuid |-> u]

\* The error a failed evaluation raises: a path that selects nothing is a
\* States.Runtime error.
Failed(e) == [ok |-> FALSE, v |-> Str(e)]

ErrName(r) == IF r.v = Null THEN "States.Runtime" ELSE r.v.v

\* The cause a service gives with an error.
CauseOf(error) == "cause of " \o error

ErrCause(r) == IF r.v = Null THEN "" ELSE CauseOf(r.v.v)

\* ResultPath puts the result into the raw input, OutputPath selects the
\* output from that.
Output(st, raw, res) ==
    IF ~res.ok THEN res
    ELSE LET merged == IF st.ResultPath = DISCARD THEN Ok(raw)
                       ELSE PutPath(raw, st.ResultPath, res.v)
         IN IF ~merged.ok THEN Bad ELSE GetPath(merged.v, st.OutputPath)

\* The effective input of a state: InputPath, then Parameters.
Input(st, raw, env) ==
    LET in == GetPath(raw, st.InputPath)
    IN IF ~in.ok THEN Bad
       ELSE IF st.HasParameters THEN Eval(st.Parameters, in.v, env) ELSE in

\* State s ends with result r: the execution moves to its Next state, ends
\* the branch, or raises.
Complete(s, raw, r) ==
    IF r.ok
    THEN /\ ctx' = r.v
         /\ thrown' = thrown
         /\ IF Def(s).Next = ""
            THEN status' = "ENDED" /\ pc' = s /\ hist' = hist
            ELSE status' = "RUNNING" /\ pc' = Def(s).Next
                 /\ hist' = Append(hist, Def(s).Next)
    ELSE /\ status' = "THROWN"
         /\ thrown' = [origin |-> s, at |-> s, raw |-> raw, Error |-> ErrName(r),
                       Cause |-> ErrCause(r), fail |-> FALSE]
         /\ UNCHANGED <<pc, ctx, hist>>

StartExecution ==
    /\ status \in {"IDLE", "SUCCEEDED", "FAILED"}
    /\ graph.gen > 0
    /\ exec.n < MaxExecs
    /\ \E i \in DOMAIN ExecNames :
          /\ i > exec.n
          /\ exec' = [name |-> ExecNames[i], n |-> i]
    /\ status' = "RUNNING"
    /\ pc' = graph.start
    /\ ctx' = cfg.input
    /\ stack' = <<>>
    /\ thrown' = NoThrow
    /\ hist' = <<graph.start>>
    /\ calls' = <<>>
    /\ UNCHANGED <<cfg, graph, builds, lastRead, result, s3, puts>>

StepPass ==
    /\ status = "RUNNING"
    /\ Def(pc).Type = "Pass"
    /\ \E u \in UUIDs :
          Complete(pc, ctx, Output(Def(pc), ctx, Input(Def(pc), ctx, Env(u))))
    /\ UNCHANGED <<cfg, graph, builds, lastRead, result, exec, stack, calls, s3, puts>>

\* The text S3 stores for a body: a string as it is, any other value as
\* its JSON text.
BodyText(body) == IF IsStr(body) THEN body.v ELSE Serialize(body)

Has(x, k) == IsObj(x) /\ k \in DOMAIN x.v

HasStr(x, k) == Has(x, k) /\ IsStr(x.v[k])

\* What answers a call: for an execution that a state starts, the handler
\* or the source its input names; else the resource.
Target(resource, params) ==
    IF resource = START_EXECUTION /\ Has(params, "Input")
    THEN IF HasStr(params.v["Input"], "handler")
         THEN params.v["Input"].v["handler"].v
         ELSE IF HasStr(params.v["Input"], "source_path")
         THEN params.v["Input"].v["source_path"].v
         ELSE resource
    ELSE resource

\* The answer of a service to a call that it does not fail.
Service(resource, params) ==
    CASE resource = S3_PUT ->
           IF HasStr(params, "Bucket") /\ HasStr(params, "Key") /\ Has(params, "Body")
           THEN Ok(Rec(<< <<"ETag", Str("etag")>> >>))
           ELSE Failed("S3.SdkClientException")
      [] resource = S3_GET ->
           IF HasStr(params, "Bucket") /\ HasStr(params, "Key")
              /\ <<params.v["Bucket"].v, params.v["Key"].v>> \in DOMAIN s3
           THEN Ok(Rec(<< <<"Body", Str(s3[<<params.v["Bucket"].v, params.v["Key"].v>>])>>,
                          <<"ContentType", Str("binary/octet-stream")>> >>))
           ELSE Failed("S3.NoSuchKeyException")
      [] resource = START_EXECUTION ->
           Ok(Rec(<< <<"Output",
                       IF Target(resource, params) \in DOMAIN cfg.answers
                       THEN cfg.answers[Target(resource, params)] ELSE EmptyObj>>,
                     <<"Status", Str("SUCCEEDED")>> >>))
      [] OTHER ->
           IF resource \in DOMAIN cfg.answers THEN Ok(cfg.answers[resource])
           ELSE Ok(EmptyObj)

FaultAt(resource) ==
    IF resource \in DOMAIN cfg.faults THEN cfg.faults[resource] ELSE ""

StepTask ==
    /\ status = "RUNNING"
    /\ Def(pc).Type = "Task"
    /\ \E u \in UUIDs :
       \E in \in {Input(Def(pc), ctx, Env(u))} :
          LET st == Def(pc)
              target == Target(st.Resource, in.v)
          IN IF ~in.ok
             THEN Complete(pc, ctx, in) /\ UNCHANGED <<calls, s3, puts>>
             ELSE \E ans \in {IF FaultAt(target) # "" THEN Failed(FaultAt(target))
                               ELSE Service(st.Resource, in.v)} :
                  \E sel \in {IF ans.ok /\ st.HasResultSelector
                               THEN Eval(st.ResultSelector, ans.v, Env(u))
                               ELSE ans} :
                  LET stored == ans.ok /\ st.Resource = S3_PUT
                      loc == <<in.v.v["Bucket"].v, in.v.v["Key"].v>>
                  IN /\ calls' = Append(calls, [state |-> pc, resource |-> st.Resource,
                                                params |-> in.v,
                                                error |-> IF ans.ok THEN ""
                                                          ELSE ErrName(ans)])
                     /\ s3' = IF stored
                              THEN [x \in DOMAIN s3 \cup {loc} |->
                                       IF x = loc THEN BodyText(in.v.v["Body"]) ELSE s3[x]]
                              ELSE s3
                     /\ puts' = IF stored
                                THEN puts \cup {[exec |-> exec.name, bucket |-> loc[1],
                                                 key |-> loc[2]]}
                                ELSE puts
                     /\ Complete(pc, ctx, Output(st, ctx, sel))
    /\ UNCHANGED <<cfg, graph, builds, lastRead, result, exec, stack>>

\* The branches of a Parallel state.
BranchesOf(st) == IF st.Branch = "" THEN <<>> ELSE <<st.Branch>> \o st.More

\* A frame that has no run left once its first run ends.
Frame_first_run_only(par, raw, starts, inputs, i) ==
    [par |-> par, raw |-> raw, starts |-> starts, inputs |-> inputs,
     outs |-> [j \in DOMAIN starts |-> Null], left |-> {}, cur |-> i]

\* The runs of a Parallel or Map state: run i starts at starts[i] with
\* inputs[i]; cur is the run in progress, left are the runs not started,
\* outs the outputs of the runs that ended.
Frame(par, raw, starts, inputs, i) ==
    [par |-> par, raw |-> raw, starts |-> starts, inputs |-> inputs,
     outs |-> [j \in DOMAIN starts |-> Null], left |-> DOMAIN starts \ {i}, cur |-> i]

\* The branches run one at a time, in any order: the order in which they
\* end is not fixed.
EnterParallel ==
    /\ status = "RUNNING"
    /\ Def(pc).Type = "Parallel"
    /\ \E u \in UUIDs :
       \E in \in {Input(Def(pc), ctx, Env(u))} :
          LET starts == BranchesOf(Def(pc))
          IN IF in.ok
             THEN \E i \in DOMAIN starts :
                  /\ stack' = Append(stack, Frame(pc, ctx, starts,
                                                  [j \in DOMAIN starts |-> in.v], i))
                  /\ pc' = starts[i]
                  /\ ctx' = in.v
                  /\ hist' = Append(hist, starts[i])
                  /\ UNCHANGED <<status, thrown>>
             ELSE Complete(pc, ctx, in) /\ UNCHANGED stack
    /\ UNCHANGED <<cfg, graph, builds, lastRead, result, exec, calls, s3, puts>>

\* A Map state runs its iterator once for each item of the array at
\* ItemsPath, in any order; with no item its result is the empty array.
EnterMap ==
    /\ status = "RUNNING"
    /\ Def(pc).Type = "Map"
    /\ \E u \in UUIDs :
       \E in \in {Input(Def(pc), ctx, Env(u))} :
       \E items \in {IF in.ok THEN GetPath(in.v, Def(pc).ItemsPath) ELSE Bad} :
          LET starts == [j \in DOMAIN items.v.v |-> Def(pc).Branch]
          IN IF ~items.ok \/ ~IsArr(items.v)
             THEN Complete(pc, ctx, Bad) /\ UNCHANGED stack
             ELSE IF items.v.v = <<>>
             THEN Complete(pc, ctx, Output(Def(pc), ctx, Ok(Arr(<<>>))))
                  /\ UNCHANGED stack
             ELSE \E i \in DOMAIN starts :
                  /\ stack' = Append(stack, Frame(pc, ctx, starts, items.v.v, i))
                  /\ pc' = starts[i]
                  /\ ctx' = items.v.v[i]
                  /\ hist' = Append(hist, starts[i])
                  /\ UNCHANGED <<status, thrown>>
    /\ UNCHANGED <<cfg, graph, builds, lastRead, result, exec, calls, s3, puts>>

\* A Choice state goes to the Next of its first rule whose variable is
\* present in the input, or to its default.
StepChoice ==
    /\ status = "RUNNING"
    /\ Def(pc).Type = "Choice"
    /\ LET st == Def(pc)
           holds == {i \in DOMAIN st.Choices : GetPath(ctx, st.Choices[i].Variable).ok}
           to == IF holds = {} THEN st.Default
                 ELSE st.Choices[CHOOSE i \in holds : \A j \in holds : i <= j].Next
       IN IF to = ""
          THEN /\ status' = "THROWN"
               /\ thrown' = [origin |-> pc, at |-> pc, raw |-> ctx,
                             Error |-> "States.NoChoiceMatched", Cause |-> "",
                             fail |-> FALSE]
               /\ UNCHANGED <<pc, hist>>
          ELSE /\ pc' = to
               /\ hist' = Append(hist, to)
               /\ UNCHANGED <<status, thrown>>
    /\ UNCHANGED <<cfg, graph, builds, lastRead, result, exec, ctx, stack, calls, s3,
                   puts>>

\* The branch of the innermost Parallel state reached End: the state's
\* result is the array of its branches' outputs.
\* The outputs kept in the order in which the runs ended.
Collected_as_ended(frame, out) ==
    [frame.outs EXCEPT ![Len(frame.starts) - Cardinality(frame.left)] = out]

\* The outputs of the runs of a frame once the run in progress has ended
\* with out: each at the place of its branch or item.
Collected(frame, out) == [frame.outs EXCEPT ![frame.cur] = out]

\* A run of a Map state ends as a branch does: the result is the array of
\* the runs' outputs in the order of the branches or items, whatever the
\* order they ended in, and the ResultSelector reads that array.
EndBranch ==
    /\ status = "ENDED"
    /\ stack # <<>>
    /\ LET frame == stack[Len(stack)]
           st == Def(frame.par)
           outs == Collected(frame, ctx)
           res == IF st.HasResultSelector
                  THEN Eval(st.ResultSelector, Arr(outs),
                            [exec |-> exec.name, state |-> frame.par, uuid |-> "u"])
                  ELSE Ok(Arr(outs))
       IN IF frame.left = {}
          THEN /\ Complete(frame.par, frame.raw, Output(st, frame.raw, res))
               /\ stack' = SubSeq(stack, 1, Len(stack) - 1)
          ELSE \E i \in frame.left :
               /\ stack' = [stack EXCEPT ![Len(stack)] =
                                [frame EXCEPT !.outs = outs, !.cur = i,
                                              !.left = frame.left \ {i}]]
               /\ status' = "RUNNING"
               /\ pc' = frame.starts[i]
               /\ ctx' = frame.inputs[i]
               /\ hist' = Append(hist, frame.starts[i])
               /\ UNCHANGED thrown
    /\ UNCHANGED <<cfg, graph, builds, lastRead, result, exec, calls, s3, puts>>

Finish ==
    /\ status = "ENDED"
    /\ stack = <<>>
    /\ status' = "SUCCEEDED"
    /\ UNCHANGED <<cfg, graph, builds, lastRead, result, exec, pc, ctx, stack, thrown, hist, calls, s3, puts>>

\* A Fail state raises its error and cause; given as paths, they are read
\* from the state's input and have to be strings.
StepFail ==
    /\ status = "RUNNING"
    /\ Def(pc).Type = "Fail"
    /\ LET st == Def(pc)
           e == IF st.ErrorPath = "" THEN Ok(Str("")) ELSE GetPath(ctx, st.ErrorPath)
           c == IF st.CausePath = "" THEN Ok(Str(st.Cause)) ELSE GetPath(ctx, st.CausePath)
           good == e.ok /\ c.ok /\ IsStr(e.v) /\ IsStr(c.v)
       IN thrown' = [origin |-> pc, at |-> pc, raw |-> ctx,
                     Error |-> IF good THEN e.v.v ELSE "States.Runtime",
                     Cause |-> IF good THEN c.v.v ELSE "",
                     fail |-> good]
    /\ status' = "THROWN"
    /\ UNCHANGED <<cfg, graph, builds, lastRead, result, exec, pc, ctx, stack, hist, calls, s3, puts>>

\* States.ALL matches every error but the terminal ones.
Matches(catcher, error) ==
    \/ error \in catcher.ErrorEquals
    \/ "States.ALL" \in catcher.ErrorEquals
       /\ error \notin {"States.Runtime", "States.DataLimitExceeded"}

Catchers(n, error) ==
    {i \in DOMAIN Def(n).Catch : Matches(Def(n).Catch[i], error)}

\* The first matching catcher of the state takes the error: the error
\* output goes into the state's raw input at the catcher's ResultPath.
Catch ==
    /\ status = "THROWN"
    /\ Catchers(thrown.at, thrown.Error) # {}
    /\ LET i == CHOOSE j \in Catchers(thrown.at, thrown.Error) :
                  \A k \in Catchers(thrown.at, thrown.Error) : j <= k
           catcher == Def(thrown.at).Catch[i]
           out == PutPath(thrown.raw, catcher.ResultPath,
                          Rec(<< <<"Error", Str(thrown.Error)>>,
                                 <<"Cause", Str(thrown.Cause)>> >>))
       IN IF out.ok
          THEN /\ status' = "RUNNING"
               /\ pc' = catcher.Next
               /\ ctx' = out.v
               /\ hist' = Append(hist, catcher.Next)
               /\ thrown' = NoThrow
          ELSE /\ thrown' = [thrown EXCEPT !.Error = "States.Runtime", !.fail = FALSE]
               /\ UNCHANGED <<status, pc, ctx, hist>>
    /\ UNCHANGED <<cfg, graph, builds, lastRead, result, exec, stack, calls, s3, puts>>

\* No catcher on the state: the error fails the enclosing Parallel state.
Propagate ==
    /\ status = "THROWN"
    /\ Catchers(thrown.at, thrown.Error) = {}
    /\ stack # <<>>
    /\ thrown' = [thrown EXCEPT !.at = stack[Len(stack)].par,
                                !.raw = stack[Len(stack)].raw,
                                !.fail = FALSE]
    /\ stack' = SubSeq(stack, 1, Len(stack) - 1)
    /\ UNCHANGED <<cfg, graph, builds, lastRead, result, exec, status, pc, ctx, hist, calls, s3, puts>>

\* No catcher anywhere: the execution fails with the error.
Abort ==
    /\ status = "THROWN"
    /\ Catchers(thrown.at, thrown.Error) = {}
    /\ stack = <<>>
    /\ status' = "FAILED"
    /\ UNCHANGED <<cfg, graph, builds, lastRead, result, exec, pc, ctx, stack, thrown, hist, calls, s3, puts>>

(***************************************************************************)
(* LazyLoadStateMachineFragment: the reads of definition, start_state and  *)
(* end_states while the application is assembled.                          *)
(***************************************************************************)
MaxBuilds == 3

\* A getter that builds on every read.
definition_rebuild(g, n) ==
    [graph |-> Graph(build_definition(Fragment(cfg)), n + 1), builds |-> n + 1]

\* The definition getter: the cached definition, or the one that
\* build_definition makes now and the setter keeps.
definition(g, n) ==
    IF g.gen > 0 THEN [graph |-> g, builds |-> n]
    ELSE [graph |-> Graph(build_definition(Fragment(cfg)), n + 1), builds |-> n + 1]

Read(what) ==
    /\ cfg.wf = "prepost"
    /\ status = "IDLE"
    /\ builds < MaxBuilds
    /\ \E r \in {definition(graph, builds)} :
          /\ graph' = r.graph
          /\ builds' = r.builds
          /\ lastRead' = [what |-> what, gen |-> r.graph.gen, cached |-> graph.gen > 0,
                          value |-> IF what = "start_state" THEN {r.graph.start}
                                    ELSE IF what = "end_states" THEN r.graph.ends
                                    ELSE DOMAIN r.graph.states]
    /\ UNCHANGED <<cfg, result, exec, status, pc, ctx, stack, thrown, hist, calls, s3, puts>>

ReadDefinition == Read("definition")

ReadStartState == Read("start_state")

ReadEndStates == Read("end_states")

(***************************************************************************)
(* Calls of JsonReferencePath outside an execution.                        *)
(***************************************************************************)
Returns(op, arg, out) ==
    /\ result' = [op |-> op, arg |-> arg, out |-> out]
    /\ UNCHANGED <<cfg, graph, builds, lastRead, exec, status, pc, ctx, stack, thrown,
                   hist, calls, s3, puts>>

\* JsonReferencePath(content)
NewJsonReferencePath ==
    /\ cfg.wf = "path"
    /\ result.op = ""
    /\ Returns("JsonReferencePath", cfg.content, JsonReferencePath(cfg.content))

\* JsonReferencePath.sanitize(p) of the path that was made
CallSanitize ==
    /\ cfg.wf = "path"
    /\ result.op = "JsonReferencePath"
    /\ Returns("sanitize", result.out, sanitize(result.out))

\* p.as_key of the path that was made
CallAsKey ==
    /\ cfg.wf = "path"
    /\ result.op = "JsonReferencePath"
    /\ Returns("as_key", result.out, as_key(result.out))

\* convert_reference_paths(parameters)
CallConvertReferencePaths ==
    /\ cfg.wf = "convert"
    /\ result.op = ""
    /\ Returns("convert_reference_paths", cfg.parameters,
               convert_reference_paths(cfg.parameters))

\* BatchInvokedLambdaFunction(scope, "L", ...): what it raised and the
\* states it created; the definition it set, when it returned.
NewBatchInvokedLambdaFunction ==
    /\ cfg.wf = "lambda_function"
    /\ result.op = ""
    /\ \E made \in {BatchInvokedLambdaFunction(
                       "L", "fn", Str("img:1"), Str("pkg.mod.handler"), Str("q"),
                       Str("bkt"), cfg.key_prefix, Null, Null, cfg.environment,
                       Num(2048), Num(2), cfg.mount_points, cfg.volumes,
                       cfg.mount_point_configs)} :
          /\ result' = [op |-> "BatchInvokedLambdaFunction",
                        arg |-> cfg.mount_point_configs,
                        out |-> [raised |-> made.raised, created |-> made.created]]
          /\ graph' = IF made.raised = None THEN Graph(made.definition, 1) ELSE graph
    /\ UNCHANGED <<cfg, builds, lastRead, exec, status, pc, ctx, stack, thrown, hist,
                   calls, s3, puts>>

\* get_env_base(node)
CallGetEnvBase ==
    /\ cfg.wf = "env_base"
    /\ result.op = ""
    /\ Returns("get_env_base", Null, get_env_base(cfg.node, cfg.environ))

Next ==
    \/ CallGetEnvBase
    \/ NewBatchInvokedLambdaFunction
    \/ CallConvertReferencePaths
    \/ NewJsonReferencePath
    \/ CallSanitize
    \/ CallAsKey
    \/ ReadDefinition
    \/ ReadStartState
    \/ ReadEndStates
    \/ StartExecution
    \/ StepPass
    \/ StepTask
    \/ EnterParallel
    \/ EnterMap
    \/ StepChoice
    \/ EndBranch
    \/ Finish
    \/ StepFail
    \/ Catch
    \/ Propagate
    \/ Abort

Spec == Init /\ [][Next]_vars

(***************************************************************************)
(* Properties.                                                             *)
(***************************************************************************)
Terminated == status \in {"SUCCEEDED", "FAILED"}

NoCallFailed == \A i \in DOMAIN calls : calls[i].error = ""

\* The parameters of the first call made to a resource.
CallTo(resource) ==
    calls[CHOOSE i \in DOMAIN calls :
             /\ calls[i].resource = resource
             /\ \A j \in DOMAIN calls : calls[j].resource = resource => i <= j].params

Called(resource) == \E i \in DOMAIN calls : calls[i].resource = resource

\* C10: once the put_object chain has completed, the value at the result
\* path is the object of exactly the Bucket and the Key the body was stored
\* under, with no Body; with the result path as output path, that object is
\* the whole output.
C10_PutObjectOutput ==
    (cfg.wf = "put_object" /\ status = "SUCCEEDED") =>
        LET rp == OrElse(cfg.result_path, "$")
            at == IF cfg.output_path = None THEN GetPath(ctx, rp) ELSE Ok(ctx)
        IN /\ at.ok
           /\ IsObj(at.v)
           /\ DOMAIN at.v.v = {"Bucket", "Key"}
           /\ at.v.v["Bucket"] = CallTo(S3_PUT).v["Bucket"]
           /\ at.v.v["Key"] = CallTo(S3_PUT).v["Key"]

C10_Witness ==
    /\ cfg.wf = "put_object"
    /\ status = "SUCCEEDED"
    /\ cfg.result_path = "$.out"
    /\ cfg.body = Str("$.data")
    /\ <<"bkt", "dir/k">> \in DOMAIN s3

\* The payload of a put_payload / get_payload execution.
Payload == cfg.input.v["data"]

C9_GeneratedKeys ==
    (cfg.wf = "payload" /\ cfg.key = Null) =>
        /\ \A p, q \in puts : p.exec # q.exec => p.key # q.key
        /\ \A p \in puts : \E u \in UUIDs : p.key = p.exec \o "/" \o u

C9_Witness ==
    /\ cfg.wf = "payload"
    /\ cfg.key = Null
    /\ \E p, q \in puts : p.exec # q.exec /\ p.bucket = q.bucket

CallsTo(resource) == {i \in DOMAIN calls : calls[i].resource = resource}

Completed(resource) ==
    \E i \in CallsTo(resource) : calls[i].error = ""

\* The identifier the register step of this execution returned.
RegisteredArn == cfg.answers[BATCH_REGISTER].v["JobDefinitionArn"]

InnerOutput == IF cfg.chain = "task" THEN cfg.answers[OPAQUE] ELSE cfg.input

\* C4: an execution of enclose(chain, result_path = p) on the input C runs
\* the chain on C and succeeds with C in which the chain's output is
\* written at p.
C4_EncloseResult ==
    (cfg.wf = "enclose" /\ Terminated /\ NoCallFailed) =>
        /\ status = "SUCCEEDED"
        /\ cfg.chain = "task" => CallTo(OPAQUE) = cfg.input
        /\ Ok(ctx) = PutPath(cfg.input, OrElse(cfg.result_path, "$"), InnerOutput)


(***************************************************************************)
(* LazyLoadStateMachineFragment and TaskWithPrePostStatus                  *)
(***************************************************************************)
PrePost == cfg.wf = "prepost"

\* C5: over any sequence of reads of definition, start_state and
\* end_states, build_definition runs exactly once, on the first read; every
\* read returns the graph of that one build; a built fragment keeps its
\* graph and never is unbuilt again.
C5_BuiltExactlyOnce ==
    /\ [](PrePost =>
            /\ builds = (IF lastRead.what = "" THEN 0 ELSE 1)
            /\ graph.gen = builds
            /\ lastRead.what # "" =>
                  /\ lastRead.gen = 1
                  /\ lastRead.value =
                        (CASE lastRead.what = "start_state" -> {graph.start}
                           [] lastRead.what = "end_states" -> graph.ends
                           [] OTHER -> DOMAIN graph.states))
    /\ [][PrePost /\ graph.gen > 0 => graph' = graph]_vars

\* A read that the cache served, after the one build.
C5_Witness ==
    /\ PrePost
    /\ lastRead.what = "end_states"
    /\ lastRead.cached
    /\ builds = 1
    /\ lastRead.value # {}

\* The states a phase puts into the graph: the Parallel state that holds
\* the phase's chain, and the chain.
PhaseStates(kind) ==
    << "T " \o (CASE kind = "augment" -> "Augment Input"
                   [] kind = "started" -> "Status Started"
                   [] kind = "pre" -> "Pre Run"
                   [] kind = "failed" -> "Status Failed"
                   [] kind = "post" -> "Post Run"
                   [] kind = "completed" -> "Status Complete"),
       kind \o " step" >>

IfSupplied(kind) == IF kind \in cfg.phases THEN PhaseStates(kind) ELSE <<>>

\* The states of a run in which nothing fails, in order.
RunOrder ==
    <<"T Start">> \o IfSupplied("augment") \o IfSupplied("started")
        \o IfSupplied("pre") \o <<"T Run", "T step", "T Run (Restructure)">>
        \o IfSupplied("post") \o IfSupplied("completed") \o <<"T End">>

Names(seq) == {seq[i] : i \in DOMAIN seq}

\* C6: every successful execution of the TaskWithPrePostStatus workflow
\* goes through start, augment-input, status-started, pre-run, the core
\* task, post-run, status-completed and end in this order, the phases that
\* are not supplied left out; a phase that is not supplied has no state in
\* the graph.
C6_PhaseOrder ==
    PrePost /\ graph.gen > 0 =>
        /\ \A k \in Phases \ cfg.phases :
              Names(PhaseStates(k)) \cap DOMAIN graph.states = {}
        /\ \A k \in cfg.phases : Names(PhaseStates(k)) \subseteq DOMAIN graph.states
        /\ status = "SUCCEEDED" => hist = RunOrder

\* A successful run with some phases supplied and the others not.
C6_Witness ==
    /\ PrePost
    /\ status = "SUCCEEDED"
    /\ cfg.phases = {"started", "pre", "completed"}
    /\ hist = RunOrder

CoreFailed == \E i \in DOMAIN calls : calls[i].resource = OPAQUE /\ calls[i].error # ""

CoreError == cfg.faults[OPAQUE]

FailCause == "Task T failed during execution."

\* The execution ended in the Fail state that names the task.
EndedInFailState ==
    /\ status = "FAILED"
    /\ thrown.origin = "T Fail State"
    /\ thrown.fail
    /\ thrown.Cause = FailCause

\* The failure-status phase ran, and after the core task.
FailureStatusRan ==
    \E i, j \in DOMAIN calls :
        /\ i < j
        /\ calls[i].resource = OPAQUE
        /\ calls[j].resource = PhaseResource("failed")

\* C7, as stated: an error of the core task always ends the execution in
\* the Fail state that names the task, the failure-status phase supplied or
\* not; a supplied failure-status phase runs before it.
C7_AlwaysFailState ==
    PrePost /\ Terminated /\ CoreFailed =>
        /\ EndedInFailState
        /\ "failed" \in cfg.phases => FailureStatusRan

\* The errors that the States.ALL catcher takes.
Catchable(error) == error \notin {"States.Runtime", "States.DataLimitExceeded"}

\* C7, amended: with a failure-status phase supplied, an error of the core
\* task that States.ALL matches is caught, the failure-status phase runs,
\* and, unless that phase fails itself, the execution ends in the Fail
\* state that names the task.  Without a failure-status phase, or for an
\* error that States.ALL does not match, nothing catches the error: the
\* execution fails with the core task's own error and no Fail state.
C7_FailStateWhenPhaseSupplied ==
    PrePost /\ Terminated /\ CoreFailed =>
        /\ status = "FAILED"
        /\ IF "failed" \in cfg.phases /\ Catchable(CoreError)
           THEN /\ FailureStatusRan
                /\ IF FaultAt(PhaseResource("failed")) = ""
                   THEN EndedInFailState
                   ELSE /\ thrown.Error = FaultAt(PhaseResource("failed"))
                        /\ thrown.origin = "failed step"
           ELSE /\ thrown.Error = CoreError
                /\ thrown.origin = "T step"
                /\ ~thrown.fail
                /\ ~Called(PhaseResource("failed"))

\* The core task failed, the failure-status phase ran, the Fail state
\* ended the execution.
C7_Witness ==
    /\ PrePost
    /\ CoreFailed
    /\ FailureStatusRan
    /\ EndedInFailState
    /\ hist[Len(hist)] = "T Fail State"

(***************************************************************************)
(* S3Operation.get_object and get_payload                                  *)
(***************************************************************************)
\* The value at the result path of the scenario, in the final context.
AtResultPath == GetPath(ctx, OrElse(cfg.result_path, "$"))

\* C11: once the get_object chain has completed, the value it leaves has
\* the Body that was fetched together with the Bucket and the Key of the
\* request.
C11_GetObjectFields ==
    (cfg.wf = "get_object" /\ Terminated /\ NoCallFailed) =>
        /\ status = "SUCCEEDED"
        /\ AtResultPath.ok
        /\ IsObj(AtResultPath.v)
        /\ {"Body", "Bucket", "Key"} \subseteq DOMAIN AtResultPath.v.v
        /\ AtResultPath.v.v["Body"] = Str(cfg.stored)
        /\ AtResultPath.v.v["Bucket"] = Str("bkt")
        /\ AtResultPath.v.v["Key"] = Str("dir/k")

\* C12: for any result path p, once the get_payload chain has completed
\* on a body that is JSON text, the value at p is the parsed body and not
\* its text.
C12_ParsedAtResultPath ==
    (cfg.wf = "get_payload" /\ Terminated /\ NoCallFailed
        /\ StringToJson(cfg.stored).ok) =>
        /\ status = "SUCCEEDED"
        /\ AtResultPath = StringToJson(cfg.stored)

(***************************************************************************)
(* JsonReferencePath                                                       *)
(***************************************************************************)
\* C13: sanitizing a sanitized path changes nothing, for every string; and
\* both "a..b" and ".a.b." are sanitized to "a.b".
C13_SanitizeIdempotent ==
    cfg.wf = "path" =>
        /\ result.op = "sanitize" => result.out = result.arg
        /\ (result.op = "JsonReferencePath" /\ cfg.content \in {"a..b", ".a.b."})
              => result.out = "a.b"

C13_Witness ==
    /\ cfg.wf = "path"
    /\ cfg.content = "$a..b"
    /\ result.op = "sanitize"
    /\ result.out = "a.b"

\* C14, as stated: as_key of every sanitized path, the empty one included,
\* ends with ".$".
C14_AsKeyAlwaysSuffixed ==
    (cfg.wf = "path" /\ result.op = "as_key") => EndsWith(result.out, ".$")

\* C14, amended: as_key of a sanitized path that is not empty is the path
\* followed by ".$"; as_key of the empty path is "$".
C14_AsKeySuffixedUnlessEmpty ==
    (cfg.wf = "path" /\ result.op = "as_key") =>
        IF result.arg = "" THEN result.out = "$"
        ELSE /\ EndsWith(result.out, ".$")
             /\ SubSeq(result.out, 1, Len(result.out) - 2) = result.arg

C14_Witness ==
    /\ cfg.wf = "path"
    /\ result.op = "as_key"
    /\ result.arg = "a.b"
    /\ result.out = "a.b.$"

(***************************************************************************)
(* convert_reference_paths                                                 *)
(***************************************************************************)
Converted == cfg.wf = "convert" /\ result.op = "convert_reference_paths"

IsReferenceText(v) == StartsWith(v, "$") \/ StartsWith(v, "States.")

\* y has the shape of x, and every leaf of x that is no string, or a
\* string that starts with neither "$" nor "States.", is the same in y.
RECURSIVE LiteralsKept(_, _)
LiteralsKept(x, y) ==
    CASE x.t = "obj" ->
           /\ y.t = "obj"
           /\ DOMAIN y.v = DOMAIN x.v
           /\ \A k \in DOMAIN x.v : LiteralsKept(x.v[k], y.v[k])
      [] x.t = "arr" ->
           /\ y.t = "arr"
           /\ Len(y.v) = Len(x.v)
           /\ \A i \in DOMAIN x.v : LiteralsKept(x.v[i], y.v[i])
      [] x.t = "str" -> IsReferenceText(x.v) \/ y = x
      [] OTHER -> y = x

\* C15: convert_reference_paths returns a tree of the shape of its
\* argument in which every scalar that is no string and every string that
\* starts with neither "$" nor "States." is unchanged, at any depth.
C15_LiteralsUnchanged ==
    Converted => LiteralsKept(result.arg, result.out)

C15_Witness ==
    /\ Converted
    /\ result.arg = Arr(<<Str("lit"), Rec(<< <<"k", Num(1)>>, <<"j", Str("$.j")>> >>)>>)
    /\ result.out = Arr(<<Str("lit"), Rec(<< <<"k", Num(1)>>, <<"j", string_at("$.j")>> >>)>>)

\* In y, every string leaf of x that starts with "$", but for those that
\* `except` holds of, is a dereference of that path.
RECURSIVE Marked(_, _, _)
Marked(x, y, except) ==
    CASE x.t = "obj" ->
           /\ y.t = "obj"
           /\ DOMAIN y.v = DOMAIN x.v
           /\ \A k \in DOMAIN x.v : Marked(x.v[k], y.v[k], except)
      [] x.t = "arr" ->
           /\ y.t = "arr"
           /\ Len(y.v) = Len(x.v)
           /\ \A i \in DOMAIN x.v : Marked(x.v[i], y.v[i], except)
      [] x.t = "str" ->
           IF x.v \in except THEN y = x
           ELSE StartsWith(x.v, "$") => y = string_at(x.v)
      [] OTHER -> TRUE

\* C16, as stated: every string that starts with "$" is marked as a
\* dereference, at any depth of objects and arrays.
C16_EveryDollarStringMarked ==
    Converted => Marked(result.arg, result.out, {})

\* The texts of unresolved tokens among the leaves.
TokenTexts == {l.v : l \in {m \in Leaves : m.t = "str" /\ StartsWith(m.v, "${Token")}}

\* C16, amended: every string that starts with "$" but not with "${Token"
\* is marked as a dereference, at any depth of objects and arrays; a
\* string that starts with "${Token" is left as it is.
C16_DollarStringsMarkedButTokens ==
    Converted => Marked(result.arg, result.out, TokenTexts)

C16_Witness ==
    /\ Converted
    /\ result.arg = Arr(<<Str("lit"), Rec(<< <<"k", Str("${Token[T.1]}")>>,
                                              <<"j", Str("$.j")>> >>)>>)
    /\ result.out = Arr(<<Str("lit"), Rec(<< <<"k", Str("${Token[T.1]}")>>,
                                              <<"j", string_at("$.j")>> >>)>>)

(***************************************************************************)
(* BatchOperation                                                          *)
(***************************************************************************)
\* Text sub occurs in text s.
Contains(s, sub) ==
    \E i \in 1..(Len(s) + 1) :
        i + Len(sub) - 1 <= Len(s) /\ SubSeq(s, i, i + Len(sub) - 1) = sub

\* The register operation made its call.
RegisterCalled == cfg.wf = "batch_op" /\ cfg.op = "register" /\ Called(BATCH_REGISTER)

\* C17: for a literal job_definition_name n, the JobDefinitionName that
\* the prep state of register_job_definition emits, and the call gets, is
\* a text that contains n together with a token that tells executions
\* apart: the name of the execution or a UUID.
C17_NameContainsLiteral ==
    RegisterCalled =>
        LET emitted == CallTo(BATCH_REGISTER).v["JobDefinitionName"]
        IN /\ IsStr(emitted)
           /\ Contains(emitted.v, cfg.name)
           /\ emitted.v # cfg.name
           /\ \/ Contains(emitted.v, exec.name)
              \/ \E u \in UUIDs : Contains(emitted.v, u)

\* C18: each of command, image, environment, memory, vcpus and gpu that is
\* given to register_job_definition as a reference path is emitted as the
\* value at that path of the context, not as the text of the path.
C18_ReferencesDereferenced ==
    (RegisterCalled /\ cfg.refs) =>
        LET props == CallTo(BATCH_REGISTER).v["ContainerProperties"].v
            at(k) == cfg.input.v[k]
            req(type, k) == Rec(<< <<"Type", Str(type)>>, <<"Value", at(k)>> >>)
        IN /\ props["Command"] = at("command")
           /\ props["Image"] = at("image")
           /\ props["Environment"] = at("env")
           /\ props["ResourceRequirements"]
                = Arr(<<req("GPU", "gpu"), req("MEMORY", "memory"), req("VCPU", "vcpus")>>)

\* The Retry field the repository's tests expect of an API-call state.
DEFAULT_BATCH_RETRY ==
    << [ErrorEquals |-> {"Batch.BatchException"}, IntervalSeconds |-> 3,
        MaxAttempts |-> 5, BackoffRate |-> 2] >>

\* The resource the operation of the scenario calls.
OpResource ==
    CASE cfg.op = "register" -> BATCH_REGISTER
      [] cfg.op = "submit" -> BATCH_SUBMIT
      [] cfg.op = "deregister" -> BATCH_DEREGISTER

\* C19: the API-call state of register_job_definition, submit_job and
\* deregister_job_definition has a Retry that matches Batch.BatchException
\* with interval 3, 5 attempts at most and backoff rate 2: a call that is
\* throttled every time is made once and then again 5 times before the
\* execution fails with the error.
C19_ThrottledCallRetried ==
    cfg.wf = "batch_op" =>
        /\ \A n \in DOMAIN graph.states :
              graph.states[n].Type = "Task" => graph.states[n].Retry = DEFAULT_BATCH_RETRY
        /\ (Terminated /\ cfg.faults = Throttled) =>
              /\ status = "FAILED"
              /\ thrown.Error = "Batch.BatchException"
              /\ Cardinality(CallsTo(OpResource)) = 1 + DEFAULT_BATCH_RETRY[1].MaxAttempts

\* C20: when BatchInvokedLambdaFunction is constructed with both
\* mount_point_configs and mount_points given (each a non-empty list, or a
\* reference path for mount_points), the constructor raises ValueError, no
\* state has been created by then, and the fragment has no definition.
C20_ConflictRaisesBeforeAnyState ==
    (/\ result.op = "BatchInvokedLambdaFunction"
     /\ Truthy(cfg.mount_point_configs)
     /\ Truthy(cfg.mount_points))
    => /\ result.out.raised = "ValueError"
       /\ result.out.created = {}
       /\ graph = Unbuilt

C20_Witness ==
    /\ result.op = "BatchInvokedLambdaFunction"
    /\ cfg.mount_point_configs = Arr(<<Efs_config>>)
    /\ cfg.mount_points = Arr(<<Raw_mount_point>>)
    /\ cfg.volumes = Null
    /\ result.out.raised = "ValueError"
    /\ graph = Unbuilt

(***************************************************************************)
(* The shape of a definition.                                              *)
(***************************************************************************)
\* The states of the chain that starts at state n, in order, k at most.
RECURSIVE ChainFrom(_, _, _)
ChainFrom(g, n, k) ==
    IF n = "" \/ k = 0 THEN <<>>
    ELSE <<n>> \o ChainFrom(g, g.states[n].Next, k - 1)

TopLevel(g) == ChainFrom(g, g.start, Cardinality(DOMAIN g.states))

\* The states control can pass to from state n: the next state, the starts
\* of the branches of a Parallel or the iterator of a Map, the targets of a
\* Choice, the handlers of its catchers.
Targets(g, n) ==
    ({g.states[n].Next, g.states[n].Branch, g.states[n].Default}
        \cup {g.states[n].More[i] : i \in DOMAIN g.states[n].More}
        \cup {g.states[n].Choices[i].Next : i \in DOMAIN g.states[n].Choices}
        \cup {g.states[n].Catch[i].Next : i \in DOMAIN g.states[n].Catch}) \ {""}

RECURSIVE Reach(_, _)
Reach(g, S) ==
    LET more == S \cup UNION {Targets(g, n) : n \in S}
    IN IF more = S THEN S ELSE Reach(g, more)

\* State n and the states of its branch.
Region(g, n) ==
    {n} \cup Reach(g, ({g.states[n].Branch}
                          \cup {g.states[n].More[i] : i \in DOMAIN g.states[n].More})
                         \ {""})

\* The states that the catchers of state n lead to.
Handlers(g, n) == Reach(g, {g.states[n].Catch[i].Next : i \in DOMAIN g.states[n].Catch})

\* The places of the top-level chain that hold a call of the resource.
PlacesOf(g, resource) ==
    {i \in DOMAIN TopLevel(g) :
        \E m \in Region(g, TopLevel(g)[i]) : g.states[m].Resource = resource}

\* Call i of the execution was preceded by a call of the resource that
\* succeeded.
After(i, resource) ==
    \E j \in DOMAIN calls : j < i /\ calls[j].resource = resource /\ calls[j].error = ""

JobEnvironment ==
    graph.states["L Batch SubmitJob Prep"].Parameters.v["ContainerOverrides"].v["Environment"]

\* The values a list of name/value pairs gives for a name.
ValuesOf(pairs, name) ==
    {pairs.v[i].v["Value"] : i \in {j \in DOMAIN pairs.v : pairs.v[j].v["Name"] = Str(name)}}

InjectedKeys ==
    {AWS_LAMBDA_FUNCTION_HANDLER_KEY, AWS_LAMBDA_EVENT_PAYLOAD_KEY,
     AWS_LAMBDA_EVENT_RESPONSE_LOCATION_KEY}

\* The request has been stored and the states of the job come next.
RequestStored ==
    /\ cfg.wf = "lambda_function"
    /\ status = "RUNNING"
    /\ pc = "L Batch Register Parallel Prep"

Before(a, b) ==
    \E i \in DOMAIN hist :
        /\ hist[i] = a
        /\ \A j \in DOMAIN hist : hist[j] = b => i < j

\* The setup steps have ended and the job comes next.
SetupDone == cfg.wf = "demand" /\ status = "RUNNING" /\ pc = "Submit Batch Job"

\* C23: when the setup Parallel state of DemandExecutionFragment has
\* ended, the value at $.config.scaffolding.setup_results is an object
\* with the one key batch_args, whose value is what the create branch
\* returned, whichever of the two branches ended first and however many
\* inputs the other branch transferred.
C23_SetupYieldsBatchArgs ==
    SetupDone =>
        LET at == GetPath(ctx, "$.config.scaffolding.setup_results")
        IN /\ at.ok
           /\ IsObj(at.v)
           /\ DOMAIN at.v.v = {"batch_args"}
           /\ at.v.v["batch_args"] = cfg.batch_args

C23_Witness ==
    /\ SetupDone
    /\ cfg.requests = 2
    /\ Before("Transfer Input", "Pass: Create Definition and Prep Job Args")
    /\ GetPath(ctx, "$.config.scaffolding.setup_results.batch_args") = Ok(BatchArgs("b"))

\* The calls made by a state that succeeded, and those that failed.
Succeeded(state) == {i \in DOMAIN calls : calls[i].state = state /\ calls[i].error = ""}

FailedAt(state) == {i \in DOMAIN calls : calls[i].state = state /\ calls[i].error # ""}

\* The inputs that the executions started by a state were given.
InputsOf(state) == {calls[i].params.v["Input"] : i \in Succeeded(state)}

SetupRequests == cfg.answers[SCAFFOLDING_HANDLER].v["setup_configs"].v["data_sync_requests"].v

\* C24: in an execution of DemandExecutionFragment the state 'Submit Batch
\* Job' is entered only when the create branch has ended (its execution
\* succeeded and its enclosure was left) and a transfer execution has
\* succeeded for every one of the data sync requests; once the create
\* execution or a transfer execution has failed, the state is never
\* entered and no job is submitted.
C24_SubmitAfterBothBranches ==
    cfg.wf = "demand" =>
        LET entered == \E i \in DOMAIN hist : hist[i] = "Submit Batch Job"
            branch_failed ==
                FailedAt("SM: Create Definition and Prep Job Args") # {}
                    \/ FailedAt("Transfer Input") # {}
        IN /\ entered =>
                /\ Succeeded("SM: Create Definition and Prep Job Args") # {}
                /\ Before("Create Definition and Prep Job Args Enclosure Post",
                          "Submit Batch Job")
                /\ InputsOf("Transfer Input")
                      = {SetupRequests[i] : i \in DOMAIN SetupRequests}
                /\ Cardinality(Succeeded("Transfer Input")) = Len(SetupRequests)
           /\ branch_failed => ~entered /\ CallsTo(BATCH_SUBMIT) = {}

C24_Witness ==
    /\ SetupDone
    /\ cfg.requests = MaxRequests
    /\ Cardinality(Succeeded("Transfer Input")) = MaxRequests
    /\ Succeeded("SM: Create Definition and Prep Job Args") # {}

\* The states of the cleanup chain of DemandExecutionFragment.
CleanupStates ==
    Reach(graph, {"Transfer Results FROM Batch Job"})

\* C25: when the job submitted by 'Submit Batch Job' fails, a catcher of
\* that state takes the error, states of the cleanup chain run after it,
\* and the execution then ends FAILED.
C25_SubmitFailureCleanedUp ==
    (cfg.wf = "demand" /\ Terminated /\ FailedAt("Submit Batch Job") # {}) =>
        /\ graph.states["Submit Batch Job"].Catch # <<>>
        /\ \E i \in DOMAIN hist :
              /\ hist[i] \in CleanupStates
              /\ \E j \in DOMAIN hist : j < i /\ hist[j] = "Submit Batch Job"
        /\ status = "FAILED"

(***************************************************************************)
(* BatchInvokedExecutorFragment.                                           *)
(***************************************************************************)
\* The command that the submit state of the definition sends for the job.
JobCommand ==
    graph.states["EBatch SubmitJob Prep"].Parameters.v["ContainerOverrides"].v["Command"]

\* The words that follow a flag in a command.
ArgsOf(command, flag) ==
    {command.v[i + 1] : i \in {j \in DOMAIN command.v :
                                 j < Len(command.v) /\ command.v[j] = Str(flag)}}

\* The request of this execution has been stored and the states of the job
\* come next.
ExecutorRequestStored ==
    /\ cfg.wf = "executor"
    /\ status = "RUNNING"
    /\ pc = "EBatch Register Parallel Prep"

RECURSIVE FirstGiven(_)
FirstGiven(values) ==
    IF values = <<>> THEN None
    ELSE IF Head(values) # None THEN Head(values)
    ELSE FirstGiven(Tail(values))

\* C27: get_env_base returns the EnvBase of the context when the context
\* gives one; else the type of the context with the label of the context
\* or, without one, of the environment; else the EnvBase of the
\* environment (its base variable, or its type and label variables); else
\* dev with the label of the context, else of the environment, else the
\* first dot-separated component of USER, else "anonymous".
C27_EnvBaseByPriority ==
    result.op = "get_env_base" =>
        LET c_base == get_from_context(cfg.node, ENV_BASE_KEYS)
            c_type == get_from_context(cfg.node, ENV_TYPE_KEYS)
            c_label == get_from_context(cfg.node, ENV_LABEL_KEYS)
            e_base == get_env_var(cfg.environ, <<"ENV_BASE_KEY", "ENV_BASE_KEY_ALIAS">>)
            e_type == get_env_var(cfg.environ, ENV_TYPE_KEYS)
            e_label == get_env_var(cfg.environ, ENV_LABEL_KEYS)
            user == cfg.environ["USER"]
            WithLabel(type, label) ==
                IF label = None THEN type ELSE type \o "-" \o label
        IN result.out =
              CASE c_base # None -> c_base
                [] c_base = None /\ c_type # None ->
                     WithLabel(c_type, FirstGiven(<<c_label, e_label>>))
                [] c_base = None /\ c_type = None /\ e_base # None -> e_base
                [] c_base = None /\ c_type = None /\ e_base = None /\ e_type # None ->
                     WithLabel(e_type, e_label)
                [] OTHER ->
                     WithLabel("dev",
                               FirstGiven(<<c_label, e_label,
                                            IF user = None THEN None
                                            ELSE FirstComponent(user),
                                            "anonymous">>))

\* The context gives a type and a label, the environment a base: the type
\* and the label of the context are the result.
C27_Witness ==
    /\ result.op = "get_env_base"
    /\ get_from_context(cfg.node, ENV_BASE_KEYS) = None
    /\ get_from_context(cfg.node, ENV_TYPE_KEYS) = "test"
    /\ get_from_context(cfg.node, ENV_LABEL_KEYS) = "ca"
    /\ cfg.environ["ENV_BASE_KEY_ALIAS"] = "prod-e"
    /\ result.out = "test-ca"

(***************************************************************************)
(* TaskWithPrePostStatus: the phases around the core task.                 *)
(***************************************************************************)
\* The Parallel states of the phases whose result is discarded.
SidePhases == {"T Status Started", "T Pre Run", "T Post Run", "T Status Complete"}

SidePhaseKinds == {"started", "pre", "post", "completed"}

\* C28: in an execution of the TaskWithPrePostStatus workflow, when the
\* status-started, pre-run, post-run or status-completed phase ends, the
\* context is what it was when the phase began; the core task is called
\* with the input of the execution and a successful execution ends with
\* the core task's answer, whichever of these phases are supplied and
\* whatever they answer.
C28_SidePhasesLeaveContext ==
    /\ [](PrePost =>
            /\ Called(OPAQUE) => CallTo(OPAQUE) = cfg.input
            /\ status = "SUCCEEDED" => ctx = cfg.answers[OPAQUE])
    /\ [][(/\ PrePost
           /\ stack # <<>>
           /\ stack[Len(stack)].par \in SidePhases
           /\ Len(stack') < Len(stack)
           /\ status' # "THROWN")
             => ctx' = stack[Len(stack)].raw]_vars

\* A successful execution in which the four phases all ran and answered.
C28_Witness ==
    /\ PrePost
    /\ status = "SUCCEEDED"
    /\ SidePhaseKinds \subseteq cfg.phases
    /\ \A k \in SidePhaseKinds :
          \E i \in DOMAIN calls :
              calls[i].resource = PhaseResource(k) /\ calls[i].error = ""
    /\ SidePhases \subseteq {hist[i] : i \in DOMAIN hist}
    /\ ctx = cfg.answers[OPAQUE]

(***************************************************************************)
(* S3Operation.get_object: where the call finds the bucket and the key.    *)
(***************************************************************************)
\* The bucket and key that the Prep state of get_object writes.
PrepWrote == Eval(graph.states["Get GetObject Prep"].Parameters, cfg.input, Env("u"))

\* The Prep state ended and the API call state was entered.
GetCallEntered ==
    /\ cfg.wf = "get_object"
    /\ \E i \in DOMAIN hist : hist[i] = "Get GetObject API Call"

\* C29: whatever result_path get_object is given, once the Prep state has
\* written the bucket and the key, the API call state gets the object of
\* that bucket and key: it reads them where the Prep state wrote them.
C29_CallReadsWhatPrepWrote ==
    (GetCallEntered /\ Terminated) =>
        /\ CallsTo(S3_GET) # {}
        /\ \A i \in CallsTo(S3_GET) : calls[i].params = PrepWrote.v

(***************************************************************************)
(* TaskWithPrePostStatus: the end states of the definition.                *)
(***************************************************************************)
\* C30: the definition that TaskWithPrePostStatus builds has the state
\* 'T End' as its only end state, and that is what end_states returns.
C30_EndIsOnlyEndState ==
    (PrePost /\ graph.gen > 0) =>
        /\ graph.ends = {"T End"}
        /\ lastRead.what = "end_states" => lastRead.value = {"T End"}

====
